---- MODULE Spec2Model ----
(***************************************************************************)
(* The per-run workflow coordinator of roadrunner-temporal                 *)
(* (package aggregatedpool, type Workflow): the message queue, the inbound *)
(* pipeline, the deferred callbacks, the canceller, the update callback    *)
(* maps and the tick that drains them.                                     *)
(*                                                                         *)
(* The handlers are written as operators on a record s holding the fields  *)
(* of the Workflow struct, so that a handler which calls another handler   *)
(* (handleMessage -> flushQueue, Cancel -> thunk -> result handler) is one *)
(* atomic step, as it is in the single-threaded coordinator.               *)
(***************************************************************************)
EXTENDS Naturals, Sequences, FiniteSets, TLC

\* ---------------------------------------------------------------- bounds
MaxCmds == 2      \* commands the external worker issues in one run
MaxSeqCmds == 3   \* the same, for a worker with a vocabulary of two commands
MaxAlloc == 2     \* messages the coordinator allocates in one run
MaxReply == 2     \* messages in one reply frame
MaxUpdates == 1   \* updates the SDK delivers in one run
MaxAttrs == 2     \* search attributes in one upsert command
MaxUpserts == 1   \* commands of a worker that upserts search attributes
MaxPools == 3     \* workflow pools the plugin starts, the one of Serve included
MaxResets == 2    \* calls of Plugin.Reset
MaxEvents == 1    \* worker events the event bus publishes
MaxRetries == 1   \* failed attempts of backoff.Retry before it gives up

\* ------------------------------------------------------------- constants
completed == "completed"
valExec == "validate_execute"

NoPayloads == "nil"
Payloads == {NoPayloads, "pl"}
SignalInputs == {"pl"}

AllUpdateIds == <<"u1", "u2", "u3">>
UpdateIds == {AllUpdateIds[i] : i \in 1..MaxUpdates}
CmdIds == 1..(IF MaxCmds > MaxSeqCmds THEN MaxCmds ELSE MaxSeqCmds)

\* --------------------------------------------------------------- helpers
Range(f) == {f[i] : i \in DOMAIN f}

Min(a, b) == IF a < b THEN a ELSE b

SeqsUpTo(S, n) == UNION {[1..k -> S] : k \in 0..n}

\* ------------------------------------------------------- internal.Message
\* id, command (empty for a response), payloads, failure; commandIDs is the
\* option CommandIDs of Cancel and holds the option ID of
\* GetChildWorkflowExecution; updateID is the option of UpdateValidated,
\* UpdateCompleted and InvokeUpdate; workflowID is the option of
\* ExecuteChildWorkflow, a string as a sequence of its parts, empty when the
\* worker left it out; attrs is the option SearchAttributes of
\* UpsertWorkflowTypedSearchAttributes, in the order the handler goes through
\* the map (the key of an entry is its place).
Message(id, command, payloads, failure, commandIDs, updateID) ==
    [id |-> id, command |-> command, payloads |-> payloads, failure |-> failure,
     commandIDs |-> commandIDs, updateID |-> updateID, workflowID |-> <<>>,
     attrs |-> <<>>]

Response(id, payloads) == Message(id, "", payloads, FALSE, <<>>, "")
ErrorResponse(id) == Message(id, "", NoPayloads, TRUE, <<>>, "")

IsResolution(m, id) == m.command = "" /\ m.id = id

\* The run id, and the workflow id made for the k-th child workflow that came
\* without one: RunID + "_" + strconv.Itoa(k).
RunID == "R"
GeneratedID(k) == <<RunID, "_", k>>

\* Commands that start an SDK future whose result handler is createCallback
\* or createLocalActivityCallback.
FutureCommands == {"ExecuteActivity", "ExecuteLocalActivity", "ExecuteChildWorkflow",
                   "NewTimer", "SignalExternalWorkflow", "CancelExternalWorkflow"}
\* Those of them that register a cancel thunk.
CancellableCommands == {"ExecuteActivity", "ExecuteLocalActivity",
                        "ExecuteChildWorkflow", "NewTimer"}

\* ------------------------------------------------------ MessageQueue (mq)
\* The id allocator: the next id is one more than the last.
Allocate(s) ==
    [s EXCEPT !.mqSeq = @ + 1, !.allocLog = Append(@, s.mqSeq + 1)]

\* AllocateMessage assigns the next id and fills the message; PushCommand
\* allocates and appends to the buffer.
AllocateMessage(s, command, payloads, updateID) ==
    [s |-> Allocate(s),
     msg |-> Message(Allocate(s).mqSeq, command, payloads, FALSE, <<>>, updateID)]

PushCommand(s, command, payloads, updateID) ==
    LET a == AllocateMessage(s, command, payloads, updateID)
    IN [a.s EXCEPT !.mq = Append(@, a.msg)]

PushResponse(s, id, payloads) ==
    [s EXCEPT !.mq = Append(@, Response(id, payloads)),
              !.resolved = [@ EXCEPT ![id] = @ + 1]]

PushError(s, id) ==
    [s EXCEPT !.mq = Append(@, ErrorResponse(id)),
              !.resolved = [@ EXCEPT ![id] = @ + 1]]

Flush(s) == [s EXCEPT !.mq = <<>>]

\* -------------------------------------------------------------- Canceller
Register(s, id, thunk) ==
    [s EXCEPT !.canceller = [i \in (DOMAIN @) \cup {id} |->
                                IF i = id THEN thunk ELSE @[i]]]

Discard(s, id) ==
    [s EXCEPT !.canceller = [i \in (DOMAIN @) \ {id} |-> @[i]]]

\* ------------------------------------------------------ result handlers
\* The closure `callback` of createCallback and of
\* createLocalActivityCallback: discard the canceller, push the error or the
\* response.
callbackKeepsCanceller(s, id, err, result) ==
    IF err THEN PushError(s, id) ELSE PushResponse(s, id, result)

callbackNoReturn(s, id, err, result) ==
    LET s1 == Discard(s, id)
    IN IF err THEN PushResponse(PushError(s1, id), id, result)
       ELSE PushResponse(s1, id, result)

callback(s, id, err, result) ==
    LET s1 == Discard(s, id)
    IN IF err THEN PushError(s1, id) ELSE PushResponse(s1, id, result)

\* A closure kept in wp.callbacks.
Closure(id, err, result) == [id |-> id, err |-> err, result |-> result]

\* The handler createCallback returns, fired by the SDK with (result, err).
createCallbackInverted(s, id, err, result) ==
    IF ~s.inLoop
    THEN callback(s, id, err, result)
    ELSE [s EXCEPT !.callbacks = Append(@, Closure(id, err, result))]

createCallback(s, id, err, result) ==
    IF s.inLoop
    THEN callback(s, id, err, result)
    ELSE [s EXCEPT !.callbacks = Append(@, Closure(id, err, result))]

\* The handler createLocalActivityCallback returns (lar.Err, lar.Result).
createLocalActivityCallback(s, id, err, result) ==
    IF s.inLoop
    THEN callback(s, id, err, result)
    ELSE [s EXCEPT !.callbacks = Append(@, Closure(id, err, result))]

\* The SDK fires the result handler it was given for command id.
ResultHandler(s, id, err, result) ==
    IF s.fut[id].handler = "createLocalActivityCallback"
    THEN createLocalActivityCallback(s, id, err, result)
    ELSE createCallback(s, id, err, result)

\* -------------------------------------------------------------- IDRegistry
\* The entry of a child workflow command: res, the start result pushed
\* ("none", "ok", "err"); cb, the message id of the stored listener (0: none);
\* listened and fired, history: the message that called Listen and the number
\* of times a listener of this entry was invoked.
NoEntry == [res |-> "none", cb |-> 0, listened |-> 0, fired |-> 0]

\* The listener GetChildWorkflowExecution hands to Listen: it makes the
\* result handler of its own message and calls it with the execution
\* converted to payloads, or with the error.
listenCb(s, msgId, res) ==
    createCallback(s, msgId, res = "err", IF res = "err" THEN NoPayloads ELSE "pl")

\* Push(id, exec, err): store the result; a stored listener fires now.
Push(s, id, res) ==
    LET s1 == [s EXCEPT !.ids[id].res = res]
    IN IF s.ids[id].cb # 0
       THEN listenCb([s1 EXCEPT !.ids[id].cb = 0, !.ids[id].fired = @ + 1],
                     s.ids[id].cb, res)
       ELSE s1

ListenStoresOnly(s, id, msgId) ==
    [s EXCEPT !.ids[id].cb = msgId, !.ids[id].listened = msgId]

\* Listen(id, cb): with a result stored the listener fires now, otherwise it
\* is stored.
Listen(s, id, msgId) ==
    IF s.ids[id].res # "none"
    THEN listenCb([s EXCEPT !.ids[id].listened = msgId, !.ids[id].fired = @ + 1],
                  msgId, s.ids[id].res)
    ELSE [s EXCEPT !.ids[id].cb = msgId, !.ids[id].listened = msgId]

\* Cancel(ids...): each registered thunk is invoked, in the order of ids.  A
\* thunk asks the SDK to cancel its activity, timer or child workflow; the SDK
\* answers a pending future either at once, by firing its result handler with
\* a cancelled error from inside the request (the ids in sync), or later.  A
\* thunk may return an error (the ids in fails): Cancel goes on with the rest
\* and returns the errors together.  The thunks of handleMessage all return
\* nil.
\* thunkLog is the history of the call: each id named, whether a thunk was
\* invoked for it, and whether that thunk returned an error.
Visit(id, invoked) == [id |-> id, invoked |-> invoked, err |-> FALSE]

Failed(id) == [Visit(id, TRUE) EXCEPT !.err = TRUE]

\* The error Cancel returns: some thunk returned one.
CancelError(log) == \E i \in DOMAIN log : log[i].err

RECURSIVE CancelUnregistered(_, _, _, _)
CancelUnregistered(s, ids, sync, fails) ==
    IF ids = <<>> THEN s
    ELSE LET id == Head(ids)
             s0 == [s EXCEPT !.thunkLog = Append(@, Visit(id, TRUE))]
             fires == id \in sync /\ s.fut[id].st = "pending"
             s1 == IF fires
                   THEN ResultHandler([s0 EXCEPT !.fut[id].st = "fired"], id, TRUE, NoPayloads)
                   ELSE s0
         IN CancelUnregistered(s1, Tail(ids), sync, fails)

RECURSIVE Cancel(_, _, _, _)
Cancel(s, ids, sync, fails) ==
    IF ids = <<>> THEN s
    ELSE LET id == Head(ids)
             registered == id \in DOMAIN s.canceller
             failing == registered /\ id \in fails
             s0 == [s EXCEPT !.thunkLog =
                       Append(@, IF failing THEN Failed(id) ELSE Visit(id, registered))]
             fires == /\ registered
                      /\ ~failing
                      /\ id \in sync
                      /\ s.fut[id].st = "pending"
             s1 == IF fires
                   THEN ResultHandler([s0 EXCEPT !.fut[id].st = "fired"], id, TRUE, NoPayloads)
                   ELSE s0
         IN Cancel(s1, Tail(ids), sync, fails)

\* --------------------------------------------------------------- flushQueue
\* out is what the round trip does: kind "ok" with the decoded reply msgs, or
\* the step of the round trip that fails: "encode", "exec", "result", "stream",
\* "empty" (no reply on the channel yet: out.msgs is the reply the pool
\* delivers later), "decode".
\*
\* What a round trip saw and did, kept as history of the step: the operation,
\* the outcome, mq and pipeline as the operation found them, the message
\* runCommand sent, the reply, the values sent on the stop channel it made;
\* and its payload buffer: the number of times one was taken from pldPool and
\* given back, and the body the buffer holds.
Exchange(op, out, s) ==
    [op |-> op, kind |-> out.kind, mq |-> s.mq, pipeline |-> s.pipeline,
     sent |-> <<>>, msgs |-> out.msgs, stop |-> 0,
     got |-> 0, put |-> 0, body |-> ""]

NoExchange == [op |-> "", kind |-> "", mq |-> <<>>, pipeline |-> <<>>,
               sent |-> <<>>, msgs |-> <<>>, stop |-> 0,
               got |-> 0, put |-> 0, body |-> ""]

\* getPld takes a buffer from pldPool; putPld zeroes it and gives it back.
getPld(x) == [x EXCEPT !.got = @ + 1]

putPld(x) == [x EXCEPT !.put = @ + 1, !.body = ""]

\* codec.Encode wrote the frame into the buffer.
Encoded(x) == [x EXCEPT !.body = "frame"]

\* The reply channel of a round trip that was given up.
Abandoned(msgs) == [st |-> "awaiting", msgs |-> msgs]
NoChannel == [st |-> "none", msgs |-> <<>>]

flushQueueClearsFirst(s, out) ==
    IF Len(s.mq) = 0 THEN s
    ELSE LET s0 == [s EXCEPT !.flush = Exchange("flushQueue", out, s)]
         IN IF out.kind = "encode" THEN [s0 EXCEPT !.err = "encode error"]
            ELSE IF out.kind = "exec" THEN [s0 EXCEPT !.err = "exec error"]
            ELSE LET s1 == Flush([s0 EXCEPT !.lastFlush = s.mq])
                 IN CASE out.kind = "result" -> [s1 EXCEPT !.err = "result error"]
                      [] out.kind = "stream" ->
                           [s1 EXCEPT !.err = "streaming is not supported",
                                      !.flush.stop = @ + 1]
                      [] out.kind = "empty" ->
                           [s1 EXCEPT !.err = "worker empty response",
                                      !.late = Abandoned(out.msgs)]
                      [] out.kind = "decode" -> [s1 EXCEPT !.err = "decode error"]
                      [] OTHER ->
                           [s1 EXCEPT !.pipeline = @ \o out.msgs,
                                      !.wid = @ + Len(out.msgs)]

flushQueueSilentStream(s, out) ==
    IF Len(s.mq) = 0 THEN s
    ELSE LET s0 == [s EXCEPT !.flush = Exchange("flushQueue", out, s)]
         IN IF out.kind = "encode" THEN [s0 EXCEPT !.err = "encode error"]
            ELSE IF out.kind = "exec" THEN [s0 EXCEPT !.err = "exec error"]
            ELSE LET s1 == [s0 EXCEPT !.lastFlush = s.mq]
                 IN CASE out.kind = "result" -> [s1 EXCEPT !.err = "result error"]
                      [] out.kind = "stream" ->
                           [s1 EXCEPT !.err = "streaming is not supported"]
                      [] out.kind = "empty" ->
                           [s1 EXCEPT !.err = "worker empty response",
                                      !.late = Abandoned(out.msgs)]
                      [] out.kind = "decode" -> [s1 EXCEPT !.err = "decode error"]
                      [] OTHER ->
                           [Flush(s1) EXCEPT !.pipeline = @ \o out.msgs,
                                             !.wid = @ + Len(out.msgs)]

flushQueueWaits(s, out) ==
    IF Len(s.mq) = 0 THEN s
    ELSE LET s0 == [s EXCEPT !.flush = Exchange("flushQueue", out, s)]
         IN IF out.kind = "encode" THEN [s0 EXCEPT !.err = "encode error"]
            ELSE IF out.kind = "exec" THEN [s0 EXCEPT !.err = "exec error"]
            ELSE LET s1 == [s0 EXCEPT !.lastFlush = s.mq]
                 IN CASE out.kind = "result" -> [s1 EXCEPT !.err = "result error"]
                      [] out.kind = "stream" ->
                           [s1 EXCEPT !.err = "streaming is not supported",
                                      !.flush.stop = @ + 1]
                      [] out.kind = "decode" -> [s1 EXCEPT !.err = "decode error"]
                      [] OTHER ->
                           [Flush(s1) EXCEPT !.pipeline = @ \o out.msgs,
                                             !.wid = @ + Len(out.msgs)]

flushQueuePrepends(s, out) ==
    IF Len(s.mq) = 0 THEN s
    ELSE LET s0 == [s EXCEPT !.flush = Exchange("flushQueue", out, s)]
         IN IF out.kind = "encode" THEN [s0 EXCEPT !.err = "encode error"]
            ELSE IF out.kind = "exec" THEN [s0 EXCEPT !.err = "exec error"]
            ELSE LET s1 == [s0 EXCEPT !.lastFlush = s.mq]
                 IN CASE out.kind = "result" -> [s1 EXCEPT !.err = "result error"]
                      [] out.kind = "stream" ->
                           [s1 EXCEPT !.err = "streaming is not supported",
                                      !.flush.stop = @ + 1]
                      [] out.kind = "empty" ->
                           [s1 EXCEPT !.err = "worker empty response",
                                      !.late = Abandoned(out.msgs)]
                      [] out.kind = "decode" -> [s1 EXCEPT !.err = "decode error"]
                      [] OTHER ->
                           [Flush(s1) EXCEPT !.pipeline = out.msgs \o @,
                                             !.wid = @ + Len(out.msgs)]

\* The body of flushQueue between taking the buffer and the deferred putPld.
flushQueueBody(s, out) ==
    LET s0 == [s EXCEPT !.flush = getPld(Exchange("flushQueue", out, s))]
    IN IF out.kind = "encode" THEN [s0 EXCEPT !.err = "encode error"]
       ELSE IF out.kind = "exec"
       THEN [s0 EXCEPT !.err = "exec error", !.flush = Encoded(@)]
       ELSE LET s1 == [s0 EXCEPT !.lastFlush = s.mq, !.flush = Encoded(@)]
            IN CASE out.kind = "result" -> [s1 EXCEPT !.err = "result error"]
                 [] out.kind = "stream" ->
                      [s1 EXCEPT !.err = "streaming is not supported",
                                 !.flush.stop = @ + 1]
                 [] out.kind = "empty" ->
                      [s1 EXCEPT !.err = "worker empty response",
                                 !.late = Abandoned(out.msgs)]
                 [] out.kind = "decode" -> [s1 EXCEPT !.err = "decode error"]
                 [] OTHER ->
                      [Flush(s1) EXCEPT !.pipeline = @ \o out.msgs,
                                        !.wid = @ + Len(out.msgs)]

flushQueue(s, out) ==
    IF Len(s.mq) = 0 THEN s
    ELSE [flushQueueBody(s, out) EXCEPT !.flush = putPld(@)]

\* What the SDK reported to a continuable result handler.
Completion(id, err) == [id |-> id, err |-> err]
NoCompletion == Completion(0, FALSE)

createContinuableCallbackDefers(s, id, err, result, out) ==
    LET s1 == Discard([s EXCEPT !.completion = Completion(id, err)], id)
    IN IF ~s.inLoop THEN [s1 EXCEPT !.callbacks = Append(@, Closure(id, err, result))]
       ELSE IF err THEN PushError(s1, id)
       ELSE flushQueue(PushResponse(s1, id, result), out)

\* createContinuableCallback: never deferred; a successful completion pushes
\* the response and flushes, and a failed flush panics.
createContinuableCallback(s, id, err, result, out) ==
    LET s1 == Discard([s EXCEPT !.completion = Completion(id, err)], id)
    IN IF err THEN PushError(s1, id)
       ELSE flushQueue(PushResponse(s1, id, result), out)

\* ------------------------------------------------------- update callbacks
\* A call the coordinator makes on bindings.UpdateCallbacks.
\* failure: whether the message handed to the callback carried a failure.
UpdateCall(call, payloads, err, failure) ==
    [call |-> call, payloads |-> payloads, err |-> err, failure |-> failure]

validateCbIgnoresReplay(s, id, msg) ==
    IF msg.failure
    THEN [s EXCEPT !.updLog[id] = Append(@, UpdateCall("Reject", NoPayloads, TRUE, msg.failure))]
    ELSE [s EXCEPT !.updLog[id] = Append(@, UpdateCall("Accept", NoPayloads, FALSE, msg.failure))]

\* updateValidateCb[id](msg), the closure handleUpdate registers.
validateCb(s, id, msg) ==
    IF ~s.replaying /\ msg.failure
    THEN [s EXCEPT !.updLog[id] = Append(@, UpdateCall("Reject", NoPayloads, TRUE, msg.failure))]
    ELSE [s EXCEPT !.updLog[id] = Append(@, UpdateCall("Accept", NoPayloads, FALSE, msg.failure))]

\* updateCompleteCb[id](msg), the closure handleUpdate registers.
completeCb(s, id, msg) ==
    IF msg.failure
    THEN [s EXCEPT !.updLog[id] = Append(@, UpdateCall("Complete", NoPayloads, TRUE, msg.failure))]
    ELSE [s EXCEPT !.updLog[id] = Append(@, UpdateCall("Complete", msg.payloads, FALSE, msg.failure))]

updatesQueueCbNoValidate(s, u) ==
    PushCommand([s EXCEPT !.updateCompleteCb = @ \cup {u.id}],
                "InvokeUpdate", u.input, u.id)

\* updatesQueueCb, the thunk handleUpdate hands to env.QueueUpdate: it
\* registers both callbacks and then pushes the InvokeUpdate command.
updatesQueueCb(s, u) ==
    PushCommand([s EXCEPT !.updateValidateCb = @ \cup {u.id},
                          !.updateCompleteCb = @ \cup {u.id}],
                "InvokeUpdate", u.input, u.id)

\* --------------------------------------------------------- env.Complete
\* A call of env.Complete(result, err).
CompleteCall(payloads, err) == [payloads |-> payloads, err |-> err]

envComplete(s, payloads, err) ==
    [s EXCEPT !.completeCalls = Append(@, CompleteCall(payloads, err))]

\* ------------------------------------------------ typed search attributes
\* An entry of command.SearchAttributes: its type, its operation ("set",
\* "unset") and its decoded value.
Attr(type, op, value) == [type |-> type, op |-> op, value |-> value]

AttrTypes == {"Bool", "Float", "Int", "Keyword", "KeywordList", "String", "Datetime"}

\* The Go type of a decoded value.
GoType(v) ==
    CASE v = "nil" -> "nil"
      [] v \in {"true", "false"} -> "bool"
      [] v = "1.5" -> "float64"
      [] v = "7" -> "int"
      [] v = "[a]" -> "[]string"
      [] OTHER -> "string"

\* strconv.ParseInt(v, 10, 64) and time.Parse(time.RFC3339, v) of a string.
ParseInt(v) == IF v = "12" THEN [ok |-> TRUE, value |-> "int64(12)"]
               ELSE [ok |-> FALSE, value |-> ""]

ParseRFC3339(v) ==
    IF v = "2024-01-01T00:00:00Z"
    THEN [ok |-> TRUE, value |-> "time(2024-01-01T00:00:00Z)"]
    ELSE [ok |-> FALSE, value |-> ""]

\* A temporal.SearchAttributeUpdate.
ValueSet(key, type, value) == [key |-> key, type |-> type, op |-> "set", value |-> value]
ValueUnset(key, type) == [key |-> key, type |-> type, op |-> "unset", value |-> "nil"]

Add(upd) == [kind |-> "add", upd |-> upd]
Skip == [kind |-> "skip", upd |-> ValueUnset(0, "")]
ParseError == [kind |-> "error", upd |-> ValueUnset(0, "")]

\* One turn of the loop over command.SearchAttributes.
TranslateAttrLenient(k, x) ==
    IF x.type \notin AttrTypes THEN Skip
    ELSE IF x.op = "unset" THEN Add(ValueUnset(k, x.type))
    ELSE IF x.value = "nil" THEN Skip
    ELSE LET ty == GoType(x.value)
         IN CASE x.type = "Bool" ->
                   IF ty = "bool" THEN Add(ValueSet(k, x.type, x.value)) ELSE Skip
              [] x.type = "Float" ->
                   IF ty = "float64" THEN Add(ValueSet(k, x.type, x.value)) ELSE Skip
              [] x.type = "Int" ->
                   IF ty \in {"float64", "int"} THEN Add(ValueSet(k, x.type, x.value))
                   ELSE IF ty = "string" /\ ParseInt(x.value).ok
                   THEN Add(ValueSet(k, x.type, ParseInt(x.value).value))
                   ELSE Skip
              [] x.type \in {"Keyword", "String"} ->
                   IF ty = "string" THEN Add(ValueSet(k, x.type, x.value)) ELSE Skip
              [] x.type = "KeywordList" ->
                   IF ty = "[]string" THEN Add(ValueSet(k, x.type, x.value)) ELSE Skip
              [] x.type = "Datetime" ->
                   IF ty # "string" THEN Skip
                   ELSE IF ParseRFC3339(x.value).ok
                   THEN Add(ValueSet(k, x.type, ParseRFC3339(x.value).value))
                   ELSE Skip

TranslateAttr(k, x) ==
    IF x.type \notin AttrTypes THEN Skip
    ELSE IF x.op = "unset" THEN Add(ValueUnset(k, x.type))
    ELSE IF x.value = "nil" THEN Skip
    ELSE LET ty == GoType(x.value)
         IN CASE x.type = "Bool" ->
                   IF ty = "bool" THEN Add(ValueSet(k, x.type, x.value)) ELSE Skip
              [] x.type = "Float" ->
                   IF ty = "float64" THEN Add(ValueSet(k, x.type, x.value)) ELSE Skip
              [] x.type = "Int" ->
                   IF ty \in {"float64", "int"} THEN Add(ValueSet(k, x.type, x.value))
                   ELSE IF ty = "string" /\ ParseInt(x.value).ok
                   THEN Add(ValueSet(k, x.type, ParseInt(x.value).value))
                   ELSE Skip
              [] x.type \in {"Keyword", "String"} ->
                   IF ty = "string" THEN Add(ValueSet(k, x.type, x.value)) ELSE Skip
              [] x.type = "KeywordList" ->
                   IF ty = "[]string" THEN Add(ValueSet(k, x.type, x.value)) ELSE Skip
              [] x.type = "Datetime" ->
                   IF ty # "string" THEN Skip
                   ELSE IF ParseRFC3339(x.value).ok
                   THEN Add(ValueSet(k, x.type, ParseRFC3339(x.value).value))
                   ELSE ParseError

\* The loop: sau grows by the updates added; a parse error ends it.
RECURSIVE Translate(_, _, _)
Translate(attrs, k, sau) ==
    IF k > Len(attrs) THEN [err |-> FALSE, sau |-> sau]
    ELSE LET r == TranslateAttr(k, attrs[k])
         IN CASE r.kind = "error" -> [err |-> TRUE, sau |-> sau]
              [] r.kind = "add" -> Translate(attrs, k + 1, Append(sau, r.upd))
              [] OTHER -> Translate(attrs, k + 1, sau)

\* What an UpsertWorkflowTypedSearchAttributes command asked and what was
\* passed to env.UpsertTypedSearchAttributes, kept as history of the step.
Upsert(attrs) == [request |-> <<attrs>>, calls |-> <<>>]
NoUpsert == [request |-> <<>>, calls |-> <<>>]

\* ------------------------------------------------------------ handleMessage
\* e is what the SDK and the worker do during the call: e.sync, the futures a
\* cancel request answers at once; e.fails, the cancel thunks that return an
\* error; e.err, whether the SDK reports an error to the SideEffect handler
\* or returns one from env.UpsertTypedSearchAttributes; e.late, whether the SDK calls that handler after
\* env.SideEffect has returned instead of from inside it; e.out, the round
\* trip of a flush.
handleCompleteWorkflowBoth(s, msg) ==
    LET s1 == PushResponse(s, msg.id, completed)
    IN IF ~msg.failure
       THEN envComplete(s1, msg.payloads, "nil")
       ELSE envComplete(s1, msg.payloads, "failure")

handleCompleteWorkflow(s, msg) ==
    LET s1 == PushResponse(s, msg.id, completed)
    IN IF ~msg.failure
       THEN envComplete(s1, msg.payloads, "nil")
       ELSE envComplete(s1, NoPayloads, "failure")

handleContinueAsNew(s, msg) ==
    envComplete(PushResponse(s, msg.id, completed), NoPayloads, "ContinueAsNewError")

handleUpdateValidatedKeepsComplete(s, msg) ==
    IF msg.updateID = ""
    THEN [s EXCEPT !.err = "update id is empty, can't validate update"]
    ELSE IF msg.updateID \notin s.updateValidateCb THEN s
    ELSE [validateCb(s, msg.updateID, msg) EXCEPT !.updateValidateCb = @ \ {msg.updateID}]

handleUpdateValidated(s, msg) ==
    IF msg.updateID = ""
    THEN [s EXCEPT !.err = "update id is empty, can't validate update"]
    ELSE IF msg.updateID \notin s.updateValidateCb THEN s
    ELSE LET s1 == validateCb(s, msg.updateID, msg)
             s2 == [s1 EXCEPT !.updateValidateCb = @ \ {msg.updateID}]
         IN IF msg.failure
            THEN [s2 EXCEPT !.updateCompleteCb = @ \ {msg.updateID}]
            ELSE s2

handleUpdateCompletedMissingFails(s, msg) ==
    IF msg.updateID = ""
    THEN [s EXCEPT !.err = "update id is empty, can't complete update"]
    ELSE IF msg.updateID \notin s.updateCompleteCb
    THEN [s EXCEPT !.err = "no such update"]
    ELSE [completeCb(s, msg.updateID, msg)
             EXCEPT !.updateCompleteCb = @ \ {msg.updateID}]

handleUpdateCompleted(s, msg) ==
    IF msg.updateID = ""
    THEN [s EXCEPT !.err = "update id is empty, can't complete update"]
    ELSE IF msg.updateID \notin s.updateCompleteCb THEN s
    ELSE [completeCb(s, msg.updateID, msg)
             EXCEPT !.updateCompleteCb = @ \ {msg.updateID}]

\* ExecuteActivity, ExecuteLocalActivity, ExecuteChildWorkflow, NewTimer,
\* SignalExternalWorkflow, CancelExternalWorkflow: the SDK call takes the
\* result handler, and the first four register a cancel thunk.
\* For ExecuteChildWorkflow the workflow id the worker left out is made of the
\* run id and the next value of seqID.
handleFutureAlwaysGenerates(s, msg) ==
    LET h == IF msg.command = "ExecuteLocalActivity"
             THEN "createLocalActivityCallback" ELSE "createCallback"
        child == msg.command = "ExecuteChildWorkflow"
        s0 == IF child THEN [s EXCEPT !.seqID = @ + 1] ELSE s
        s1 == [s0 EXCEPT !.fut[msg.id] =
                            [st |-> "pending", handler |-> h, command |-> msg.command,
                             workflowID |-> IF child THEN GeneratedID(s0.seqID) ELSE <<>>]]
    IN IF msg.command \in CancellableCommands
       THEN Register(s1, msg.id, msg.command)
       ELSE s1

handleFuture(s, msg) ==
    LET h == IF msg.command = "ExecuteLocalActivity"
             THEN "createLocalActivityCallback" ELSE "createCallback"
        child == msg.command = "ExecuteChildWorkflow"
        generate == child /\ msg.workflowID = <<>>
        s0 == IF generate THEN [s EXCEPT !.seqID = @ + 1] ELSE s
        workflowID == IF generate THEN GeneratedID(s0.seqID)
                      ELSE IF child THEN msg.workflowID ELSE <<>>
        s1 == [s0 EXCEPT !.fut[msg.id] =
                            [st |-> "pending", handler |-> h, command |-> msg.command,
                             workflowID |-> workflowID]]
    IN IF msg.command \in CancellableCommands
       THEN Register(s1, msg.id, msg.command)
       ELSE s1

handleGetChildWorkflowExecutionForChild(s, msg) ==
    Listen(s, msg.commandIDs[1], msg.commandIDs[1])

\* GetChildWorkflowExecution: listen for the start result of command.ID.
handleGetChildWorkflowExecution(s, msg) == Listen(s, msg.commandIDs[1], msg.id)

handleCancelAckFirst(s, msg, e) ==
    LET s1 == PushResponse(s, msg.id, completed)
        s2 == Cancel(s1, msg.commandIDs, e.sync, e.fails)
    IN IF CancelError(s2.thunkLog) THEN [s2 EXCEPT !.err = "cancel error"]
       ELSE flushQueue(s2, e.out)

handleCancelIgnoresError(s, msg, e) ==
    LET s1 == Cancel(s, msg.commandIDs, e.sync, e.fails)
    IN flushQueue(PushResponse(s1, msg.id, completed), e.out)

handleCancelCommand(s, msg, e) ==
    LET s1 == Cancel(s, msg.commandIDs, e.sync, e.fails)
    IN IF CancelError(s1.thunkLog) THEN [s1 EXCEPT !.err = "cancel error"]
       ELSE flushQueue(PushResponse(s1, msg.id, completed), e.out)

handleGetVersionNoFlush(s, msg, e) == PushResponse(s, msg.id, "pl")

handleGetVersion(s, msg, e) ==
    flushQueue(PushResponse(s, msg.id, "pl"), e.out)

handleSideEffect(s, msg, e) ==
    IF e.late
    THEN [s EXCEPT !.fut[msg.id] =
                      [st |-> "pending", handler |-> "createContinuableCallback",
                       command |-> msg.command, workflowID |-> <<>>]]
    ELSE createContinuableCallback([s EXCEPT !.fut[msg.id] =
                                      [st |-> "fired", handler |-> "createContinuableCallback",
                                       command |-> msg.command, workflowID |-> <<>>]],
                                   msg.id, e.err, msg.payloads, e.out)

\* UpsertWorkflowTypedSearchAttributes: e.err is the error of
\* env.UpsertTypedSearchAttributes.
handleUpsertWorkflowTypedSearchAttributes(s, msg, e) ==
    LET s0 == [s EXCEPT !.upsert = Upsert(msg.attrs)]
        r == Translate(msg.attrs, 1, <<>>)
    IN IF r.err THEN [s0 EXCEPT !.err = "failed to parse time into RFC3339"]
       ELSE IF Len(r.sau) = 0 THEN s0
       ELSE LET s1 == [s0 EXCEPT !.upsert.calls = Append(@, r.sau)]
            IN IF e.err THEN [s1 EXCEPT !.err = "upsert error"] ELSE s1

\* errors.E(op, err): err under the name of the operation that returns it.
E(op, err) == op \o ": " \o err

\* The error the failure converter makes of the failure a message carries.
FailureToError(failure) == IF failure THEN "failure" ELSE ""

handlePanicWraps(s, msg) ==
    [s EXCEPT !.err = E("handleMessage", FailureToError(msg.failure))]

\* Panic: the converted failure is returned as it is.
handlePanic(s, msg) == [s EXCEPT !.err = FailureToError(msg.failure)]

\* A command handleMessage has no case for.
handleUndefined(s, msg) == [s EXCEPT !.err = E("handleMessage", "undefined command")]

handleMessage(s, msg, e) ==
    CASE msg.command \in FutureCommands -> handleFuture(s, msg)
      [] msg.command = "UpsertWorkflowTypedSearchAttributes" ->
           handleUpsertWorkflowTypedSearchAttributes(s, msg, e)
      [] msg.command = "GetChildWorkflowExecution" ->
           handleGetChildWorkflowExecution(s, msg)
      [] msg.command = "GetVersion" -> handleGetVersion(s, msg, e)
      [] msg.command = "SideEffect" -> handleSideEffect(s, msg, e)
      [] msg.command = "UpdateCompleted" -> handleUpdateCompleted(s, msg)
      [] msg.command = "UpdateValidated" -> handleUpdateValidated(s, msg)
      [] msg.command = "CompleteWorkflow" -> handleCompleteWorkflow(s, msg)
      [] msg.command = "ContinueAsNew" -> handleContinueAsNew(s, msg)
      [] msg.command = "Cancel" -> handleCancelCommand(s, msg, e)
      [] msg.command = "Panic" -> handlePanic(s, msg)
      [] OTHER -> handleUndefined(s, msg)

\* ----------------------------------------------------------------- runCommand
\* One message allocated and exchanged on its own, outside mq; the reply must
\* be exactly one message.
runCommandStaleId(s, command, payloads, out) ==
    [s |-> [s EXCEPT !.allocLog = Append(@, s.mqSeq)],
     msg |-> IF out.kind = "ok" /\ Len(out.msgs) = 1 THEN out.msgs ELSE <<>>,
     err |-> IF out.kind = "ok" /\ Len(out.msgs) = 1 THEN "" ELSE "error"]

runCommandBuffers(s, command, payloads, out) ==
    LET a == AllocateMessage(s, command, payloads, "")
        s0 == [a.s EXCEPT !.flush = [Exchange("runCommand", out, s) EXCEPT !.sent = <<a.msg>>],
                          !.mq = Append(@, a.msg)]
    IN CASE out.kind = "encode" -> [s |-> s0, msg |-> <<>>, err |-> "encode error"]
         [] out.kind = "exec" -> [s |-> s0, msg |-> <<>>, err |-> "exec error"]
         [] out.kind = "result" -> [s |-> s0, msg |-> <<>>, err |-> "result error"]
         [] out.kind = "stream" ->
              [s |-> [s0 EXCEPT !.flush.stop = @ + 1], msg |-> <<>>,
               err |-> "streaming is not supported"]
         [] out.kind = "empty" ->
              [s |-> [s0 EXCEPT !.late = Abandoned(out.msgs)], msg |-> <<>>,
               err |-> "worker empty response"]
         [] out.kind = "decode" -> [s |-> s0, msg |-> <<>>, err |-> "decode error"]
         [] OTHER ->
              IF Len(out.msgs) # 1
              THEN [s |-> s0, msg |-> <<>>, err |-> "unexpected pool response"]
              ELSE [s |-> s0, msg |-> out.msgs, err |-> ""]

runCommandFirstReply(s, command, payloads, out) ==
    LET a == AllocateMessage(s, command, payloads, "")
        s0 == [a.s EXCEPT !.flush = [Exchange("runCommand", out, s) EXCEPT !.sent = <<a.msg>>]]
    IN CASE out.kind = "encode" -> [s |-> s0, msg |-> <<>>, err |-> "encode error"]
         [] out.kind = "exec" -> [s |-> s0, msg |-> <<>>, err |-> "exec error"]
         [] out.kind = "result" -> [s |-> s0, msg |-> <<>>, err |-> "result error"]
         [] out.kind = "stream" ->
              [s |-> [s0 EXCEPT !.flush.stop = @ + 1], msg |-> <<>>,
               err |-> "streaming is not supported"]
         [] out.kind = "empty" ->
              [s |-> [s0 EXCEPT !.late = Abandoned(out.msgs)], msg |-> <<>>,
               err |-> "worker empty response"]
         [] out.kind = "decode" -> [s |-> s0, msg |-> <<>>, err |-> "decode error"]
         [] OTHER ->
              IF Len(out.msgs) = 0
              THEN [s |-> s0, msg |-> <<>>, err |-> "unexpected pool response"]
              ELSE [s |-> s0, msg |-> <<Head(out.msgs)>>, err |-> ""]

runCommand(s, command, payloads, out) ==
    LET a == AllocateMessage(s, command, payloads, "")
        s0 == [a.s EXCEPT !.flush = getPld([Exchange("runCommand", out, s)
                                               EXCEPT !.sent = <<a.msg>>])]
        s1 == [s0 EXCEPT !.flush = Encoded(@)]
        sp == [s1 EXCEPT !.flush = putPld(@)]
    IN CASE out.kind = "encode" ->
              [s |-> [s0 EXCEPT !.flush = putPld(@)], msg |-> <<>>, err |-> "encode error"]
         [] out.kind = "exec" -> [s |-> sp, msg |-> <<>>, err |-> "exec error"]
         [] out.kind = "result" -> [s |-> s1, msg |-> <<>>, err |-> "result error"]
         [] out.kind = "stream" ->
              [s |-> [s1 EXCEPT !.flush.stop = @ + 1], msg |-> <<>>,
               err |-> "streaming is not supported"]
         [] out.kind = "empty" ->
              [s |-> [s1 EXCEPT !.late = Abandoned(out.msgs)], msg |-> <<>>,
               err |-> "worker empty response"]
         [] out.kind = "decode" -> [s |-> sp, msg |-> <<>>, err |-> "decode error"]
         [] OTHER ->
              IF Len(out.msgs) # 1
              THEN [s |-> sp, msg |-> <<>>, err |-> "unexpected pool response"]
              ELSE [s |-> sp, msg |-> out.msgs, err |-> ""]

\* ------------------------------------------------------ SDK-facing entries
handleSignalFront(s, input) ==
    LET a == AllocateMessage(s, "InvokeSignal", input, "")
    IN [a.s EXCEPT !.mq = <<a.msg>> \o @]

handleSignal(s, input) == PushCommand(s, "InvokeSignal", input, "")

handleCancel(s) == PushCommand(s, "CancelWorkflow", NoPayloads, "")

\* What handleQuery returns to the SDK.
QueryResult(payloads, err) == [payloads |-> payloads, err |-> err]
NoResult == QueryResult(NoPayloads, "none")

handleQuery(s, queryArgs, out) ==
    LET r == runCommand(s, "InvokeQuery", queryArgs, out)
    IN IF r.err # ""
       THEN [r.s EXCEPT !.queryResult = QueryResult(NoPayloads, r.err)]
       ELSE IF r.msg[1].failure
       THEN [r.s EXCEPT !.queryResult = QueryResult(NoPayloads, "failure")]
       ELSE [r.s EXCEPT !.queryResult = QueryResult(r.msg[1].payloads, "nil")]

\* =========================================================================
\* The state machine
\* =========================================================================
VARIABLES
    mq,                \* wp.mq: the buffered outbound messages
    mqSeq,             \* wp.mq: the last id allocated
    pipeline,          \* wp.pipeline
    callbacks,         \* wp.callbacks
    canceller,         \* wp.canceller: id -> thunk
    updateValidateCb,  \* wp.updateValidateCb: the update ids that have an entry
    updateCompleteCb,  \* wp.updateCompleteCb: the update ids that have an entry
    updatesQueue,      \* wp.updatesQueue: update names recorded
    inLoop,            \* wp.inLoop
    queuedUpdates,     \* SDK: thunks given to env.QueueUpdate, not yet run
    fut,               \* SDK: the future of each worker command
    replaying,         \* SDK: env.IsReplaying()
    completeCalls,       \* SDK: the calls of env.Complete
    updLog,            \* SDK: the calls on each update's UpdateCallbacks
    usedUpdates,       \* SDK: update ids delivered so far
    wid,               \* worker: the last message id it used
    pc,                \* where the coordinator is: idle, drain (in OnTick), failed
    err,               \* the error that failed the task
    allocLog,          \* history: the ids allocated, in order
    resolved,          \* history: responses and errors pushed, per id
    lastFlush,         \* history: the batch of the last pool.Exec of flushQueue
    ids,               \* wp.ids: the entry of each child workflow command
    late,              \* pool: the reply channel of a round trip given up
    handleLog,         \* history: the ids of the messages given to handleMessage
    flush,             \* history: the round trip of the last step, if any
    thunkLog,          \* history: the ids the Cancel of the last step went through
    queryResult,       \* history: what handleQuery returned in the last step
    seqID,             \* wp.seqID: the number of child workflow ids generated
    upsert,            \* history: the typed search attribute upsert of the last step
    completion,        \* history: what a continuable handler was called with in the last step
    twin,              \* a second execution given the same calls, without the queries
    plugin             \* the workflow plugin that owns the pool of workers

vars == <<mq, mqSeq, pipeline, callbacks, canceller, updateValidateCb,
          updateCompleteCb, updatesQueue, inLoop, queuedUpdates, fut, replaying,
          completeCalls, updLog, usedUpdates, wid, pc, err, allocLog, resolved,
          lastFlush, ids, late, handleLog, flush, thunkLog, queryResult, seqID,
          upsert, completion, twin, plugin>>

\* The fields the handlers read and write, as one record.
S == [mq |-> mq, mqSeq |-> mqSeq, pipeline |-> pipeline, callbacks |-> callbacks,
      canceller |-> canceller, updateValidateCb |-> updateValidateCb,
      updateCompleteCb |-> updateCompleteCb, inLoop |-> inLoop, fut |-> fut,
      replaying |-> replaying, completeCalls |-> completeCalls, updLog |-> updLog,
      wid |-> wid, err |-> "", allocLog |-> allocLog, resolved |-> resolved,
      lastFlush |-> lastFlush, ids |-> ids, late |-> late, handleLog |-> handleLog,
      flush |-> NoExchange, thunkLog |-> <<>>, queryResult |-> NoResult,
      seqID |-> seqID, upsert |-> NoUpsert, completion |-> NoCompletion]

CommitFields(r) ==
    /\ mq' = r.mq
    /\ mqSeq' = r.mqSeq
    /\ pipeline' = r.pipeline
    /\ callbacks' = r.callbacks
    /\ canceller' = r.canceller
    /\ updateValidateCb' = r.updateValidateCb
    /\ updateCompleteCb' = r.updateCompleteCb
    /\ fut' = r.fut
    /\ completeCalls' = r.completeCalls
    /\ updLog' = r.updLog
    /\ wid' = r.wid
    /\ allocLog' = r.allocLog
    /\ resolved' = r.resolved
    /\ lastFlush' = r.lastFlush
    /\ ids' = r.ids
    /\ late' = r.late
    /\ handleLog' = r.handleLog
    /\ flush' = r.flush
    /\ thunkLog' = r.thunkLog
    /\ queryResult' = r.queryResult
    /\ seqID' = r.seqID
    /\ upsert' = r.upsert
    /\ completion' = r.completion
    /\ plugin' = plugin

\* A step of this execution alone.
Commit(r) == CommitFields(r) /\ twin' = twin

\* A step that runs no handler of the coordinator.
NoHandler ==
    /\ flush' = NoExchange
    /\ thunkLog' = <<>>
    /\ queryResult' = NoResult
    /\ upsert' = NoUpsert
    /\ completion' = NoCompletion
    /\ twin' = twin
    /\ plugin' = plugin

NoFuture == [st |-> "none", handler |-> "", command |-> "", workflowID |-> <<>>]

\* The coordinator as constructed; the SDK may be replaying history.
InitFields ==
    /\ mq = <<>>
    /\ mqSeq = 0
    /\ pipeline = <<>>
    /\ callbacks = <<>>
    /\ canceller = <<>>
    /\ updateValidateCb = {}
    /\ updateCompleteCb = {}
    /\ updatesQueue = {}
    /\ inLoop = FALSE
    /\ queuedUpdates = <<>>
    /\ fut = [i \in CmdIds |-> NoFuture]
    /\ replaying \in BOOLEAN
    /\ completeCalls = <<>>
    /\ updLog = [u \in UpdateIds |-> <<>>]
    /\ usedUpdates = {}
    /\ wid = 0
    /\ pc = "idle"
    /\ err = ""
    /\ allocLog = <<>>
    /\ resolved = [i \in CmdIds |-> 0]
    /\ lastFlush = <<>>
    /\ ids = [i \in CmdIds |-> NoEntry]
    /\ late = NoChannel
    /\ handleLog = <<>>
    /\ flush = NoExchange
    /\ thunkLog = <<>>
    /\ queryResult = NoResult
    /\ seqID = 0
    /\ upsert = NoUpsert
    /\ completion = NoCompletion

\* One execution alone: there is no second one.
NoTwin == <<>>

\* The coordinator alone: the plugin is left out.
NoPlugin == <<>>

Init == InitFields /\ twin = NoTwin /\ plugin = NoPlugin

\* ------------------------------------------------------ the external worker
\* The commands a worker may put in a reply.  P.kinds is the vocabulary of
\* the worker under study, P.cmds the number of commands it issues in a run,
\* P.errs the failures of the round trip.  The worker numbers its messages as it issues
\* them, and a Cancel names one or two commands it issued before.
CancelArgs(id) ==
    {<<a>> : a \in 1..(id - 1)} \cup
    {<<x[1], x[2]>> : x \in {y \in (1..(id - 1)) \X (1..(id - 1)) : y[1] # y[2]}}

\* The search attributes a worker upserts: a valid time, a string that is no
\* RFC3339 time, a bool, and an attribute without a value.
WorkerAttrs ==
    {Attr("Datetime", "set", "2024-01-01T00:00:00Z"),
     Attr("Datetime", "set", "tomorrow"),
     Attr("Bool", "set", "true"),
     Attr("Bool", "set", "nil")}

\* The workflow ids a worker gives a child workflow: none, or one of its own.
WorkflowIDs == {<<>>, <<"w1">>}

Shapes(command, id) ==
    CASE command = "Cancel" ->
           {Message(id, command, NoPayloads, FALSE, c, "") : c \in CancelArgs(id)}
      [] command \in {"UpdateValidated", "UpdateCompleted"} ->
           {Message(id, command, "pl", f, <<>>, u) :
               f \in BOOLEAN, u \in UpdateIds \cup {""}}
      [] command = "CompleteWorkflow" ->
           {Message(id, command, "pl", f, <<>>, "") : f \in BOOLEAN}
      [] command = "GetChildWorkflowExecution" ->
           {Message(id, command, NoPayloads, FALSE, <<c>>, "") : c \in (id - 1)..(id - 1) \ {0}}
      [] command = "UpsertWorkflowTypedSearchAttributes" ->
           {[Message(id, command, NoPayloads, FALSE, <<>>, "") EXCEPT !.attrs = a] :
               a \in SeqsUpTo(WorkerAttrs, MaxAttrs)}
      [] command = "Panic" -> {Message(id, command, NoPayloads, TRUE, <<>>, "")}
      [] command = "GetVersion" -> {Message(id, command, NoPayloads, FALSE, <<>>, "")}
      [] OTHER -> {Message(id, command, "pl", FALSE, <<>>, "")}

\* The child workflows a worker starts under a workflow id of its own.
NamedChildren(id) ==
    {[Message(id, "ExecuteChildWorkflow", "pl", FALSE, <<>>, "") EXCEPT !.workflowID = w] :
        w \in WorkflowIDs \ {<<>>}}

\* A worker names its child workflows only under the option "workflowID".
WorkerShapes(P, id) ==
    IF "workflowID" \in P.opts
    THEN UNION {Shapes(c, id) : c \in P.kinds} \cup NamedChildren(id)
    ELSE UNION {Shapes(c, id) : c \in P.kinds}

RECURSIVE RepliesOfLen(_, _, _)
RepliesOfLen(P, w, n) ==
    IF n = 0 THEN {<<>>}
    ELSE {Append(q, m) : q \in RepliesOfLen(P, w, n - 1), m \in WorkerShapes(P, w + n)}

Replies(P, w) ==
    UNION {RepliesOfLen(P, w, n) : n \in 0..Min(MaxReply, P.cmds - w)}

NoOut == [kind |-> "ok", msgs |-> <<>>]

\* What a round trip of flushQueue may do.
FlushOutcomes(P, w) ==
    {[kind |-> k, msgs |-> <<>>] : k \in P.errs \ {"empty"}} \cup
    {[kind |-> k, msgs |-> r] : k \in {"ok"} \cup (P.errs \cap {"empty"}),
                                r \in Replies(P, w)}

\* What the round trip of a query may do: the reply holds responses.
QueryReplies ==
    SeqsUpTo({Message(0, "", "pl", FALSE, <<>>, ""),
              Message(0, "", NoPayloads, TRUE, <<>>, "")}, 2)

QueryOutcomes(P) ==
    {[kind |-> k, msgs |-> <<>>] : k \in P.errs \ {"empty"}} \cup
    {[kind |-> k, msgs |-> r] : k \in {"ok"} \cup (P.errs \cap {"empty"}),
                                r \in QueryReplies}

\* What the SDK and the worker may do while msg is handled.
Choices(P, s, msg) ==
    LET cancellable == {id \in Range(msg.commandIDs) :
                           id \in DOMAIN s.canceller /\ s.fut[id].st = "pending"}
        syncs == IF msg.command = "Cancel" THEN SUBSET cancellable ELSE {{}}
        errs == IF msg.command \in {"SideEffect", "UpsertWorkflowTypedSearchAttributes"}
                THEN BOOLEAN ELSE {FALSE}
        lates == IF msg.command = "SideEffect" /\ "lateSideEffect" \in P.opts
                 THEN {[sync |-> {}, fails |-> {}, err |-> FALSE, late |-> TRUE,
                        out |-> NoOut]}
                 ELSE {}
        failing == IF msg.command = "Cancel" /\ "thunkErrors" \in P.opts
                   THEN UNION {{[sync |-> sy, fails |-> f, err |-> FALSE, late |-> FALSE,
                                 out |-> NoOut] : sy \in SUBSET (cancellable \ f)} :
                                   f \in (SUBSET (Range(msg.commandIDs)
                                                    \cap DOMAIN s.canceller)) \ {{}}}
                   ELSE {}
    IN {[sync |-> sy, fails |-> {}, err |-> er, late |-> FALSE, out |-> o] :
           sy \in syncs, er \in errs,
           o \in IF \/ msg.command \in {"GetVersion", "Cancel"}
                    \/ msg.command = "SideEffect"
                 THEN FlushOutcomes(P, s.wid) ELSE {NoOut}} \cup lates \cup failing

\* ------------------------------------------------------------------ actions
Running == pc = "idle" /\ completeCalls = <<>>
CanAllocate == mqSeq + Len(queuedUpdates) < MaxAlloc

Fail(r) ==
    /\ pc' = "failed"
    /\ err' = r.err
    /\ inLoop' = FALSE

\* SDK -> handleSignal
HandleSignal ==
    /\ Running /\ CanAllocate
    /\ \E input \in SignalInputs : Commit(handleSignal(S, input))
    /\ UNCHANGED <<updatesQueue, inLoop, queuedUpdates, replaying, usedUpdates, pc, err>>

\* SDK -> handleCancel
HandleCancel ==
    /\ Running /\ CanAllocate
    /\ Commit(handleCancel(S))
    /\ UNCHANGED <<updatesQueue, inLoop, queuedUpdates, replaying, usedUpdates, pc, err>>

\* SDK -> handleQuery
HandleQuery(P) ==
    /\ Running /\ CanAllocate
    /\ \E out \in QueryOutcomes(P) : Commit(handleQuery(S, "pl", out))
    /\ UNCHANGED <<updatesQueue, inLoop, queuedUpdates, replaying, usedUpdates, pc, err>>

\* SDK -> handleUpdate: the name is recorded, the rest is queued in the SDK.
HandleUpdate ==
    /\ Running /\ CanAllocate
    /\ \E id \in UpdateIds \ usedUpdates :
          /\ updatesQueue' = updatesQueue \cup {"inc"}
          /\ queuedUpdates' = Append(queuedUpdates, [name |-> "inc", id |-> id, input |-> "pl"])
          /\ usedUpdates' = usedUpdates \cup {id}
    /\ UNCHANGED <<mq, mqSeq, pipeline, callbacks, canceller, updateValidateCb,
                   updateCompleteCb, inLoop, fut, replaying, completeCalls, updLog,
                   wid, pc, err, allocLog, resolved, lastFlush, ids, late, handleLog, seqID>>
    /\ NoHandler

\* The SDK completes a pending future outside a tick and fires its handler.
SdkResult ==
    /\ Running
    /\ \E id \in CmdIds, e \in BOOLEAN :
          /\ fut[id].st = "pending"
          /\ fut[id].handler # "createContinuableCallback"
          /\ Commit(ResultHandler([S EXCEPT !.fut[id].st = "fired"], id, e,
                                  IF e THEN NoPayloads ELSE "pl"))
    /\ UNCHANGED <<updatesQueue, inLoop, queuedUpdates, replaying, usedUpdates, pc, err>>

\* The SDK calls the handler of a side effect outside a tick; a flush that
\* fails there panics.
SdkSideEffect(P) ==
    /\ Running
    /\ \E id \in CmdIds, e \in BOOLEAN :
          /\ fut[id].st = "pending"
          /\ fut[id].handler = "createContinuableCallback"
          /\ \E out \in IF e THEN {NoOut} ELSE FlushOutcomes(P, wid) :
                LET r == createContinuableCallback([S EXCEPT !.fut[id].st = "fired"], id, e,
                                                   IF e THEN NoPayloads ELSE "pl", out)
                IN /\ Commit(r)
                   /\ IF r.err # "" THEN Fail(r)
                      ELSE UNCHANGED <<pc, inLoop, err>>
    /\ UNCHANGED <<updatesQueue, queuedUpdates, replaying, usedUpdates>>

\* The SDK reports the start of a child workflow: the start callback given to
\* ExecuteChildWorkflow pushes the execution or the error into wp.ids.
SdkChildStarted ==
    /\ Running
    /\ \E id \in CmdIds, res \in {"ok", "err"} :
          /\ fut[id].command = "ExecuteChildWorkflow"
          /\ ids[id].res = "none"
          /\ Commit(Push(S, id, res))
    /\ UNCHANGED <<updatesQueue, inLoop, queuedUpdates, replaying, usedUpdates, pc, err>>

\* The pool delivers a reply on a channel the coordinator gave up: nothing
\* of the coordinator reads it.
PoolDelivers ==
    /\ late.st = "awaiting"
    /\ late' = [late EXCEPT !.st = "delivered"]
    /\ UNCHANGED <<mq, mqSeq, pipeline, callbacks, canceller, updateValidateCb,
                   updateCompleteCb, updatesQueue, inLoop, queuedUpdates, fut,
                   replaying, completeCalls, updLog, usedUpdates, wid, pc, err,
                   allocLog, resolved, lastFlush, ids, handleLog, seqID>>
    /\ NoHandler

\* The SDK reaches the end of the recorded history.
ReplayEnds ==
    /\ Running
    /\ replaying
    /\ replaying' = FALSE
    /\ UNCHANGED <<mq, mqSeq, pipeline, callbacks, canceller, updateValidateCb,
                   updateCompleteCb, updatesQueue, inLoop, queuedUpdates, fut,
                   completeCalls, updLog, usedUpdates, wid, pc, err, allocLog,
                   resolved, lastFlush, ids, late, handleLog, seqID>>
    /\ NoHandler

\* env.HandleQueuedUpdates: the SDK runs the thunks it was given, in order.
RECURSIVE HandleQueuedUpdates(_, _)
HandleQueuedUpdates(s, q) ==
    IF q = <<>> THEN s ELSE HandleQueuedUpdates(updatesQueueCb(s, Head(q)), Tail(q))

\* OnTick, first part: the loop flag is raised, the queued updates run, the
\* staged commands are exchanged with the worker.
OnTick(s, q, out) ==
    flushQueue(HandleQueuedUpdates([s EXCEPT !.inLoop = TRUE], q), out)

TickStart(P) ==
    /\ Running
    /\ LET s1 == HandleQueuedUpdates([S EXCEPT !.inLoop = TRUE], queuedUpdates)
       IN \E out \in IF s1.mq = <<>> THEN {NoOut} ELSE FlushOutcomes(P, wid) :
             LET r == OnTick(S, queuedUpdates, out)
             IN /\ Commit(r)
                /\ IF r.err # "" THEN Fail(r)
                   ELSE pc' = "drain" /\ inLoop' = TRUE /\ err' = err
    /\ updatesQueue' = {}
    /\ queuedUpdates' = <<>>
    /\ UNCHANGED <<replaying, usedUpdates>>

\* OnTick, the drain: the front of the pipeline goes to handleMessage.
DrainMessageSkips(s, e) ==
    handleMessage([s EXCEPT !.pipeline = IF Len(@) > 1 THEN Tail(Tail(@)) ELSE Tail(@),
                            !.handleLog = Append(@, Head(s.pipeline).id)],
                  Head(s.pipeline), e)

DrainMessage(s, e) ==
    handleMessage([s EXCEPT !.pipeline = Tail(@),
                            !.handleLog = Append(@, Head(s.pipeline).id)],
                  Head(s.pipeline), e)

TickMessage(P) ==
    /\ pc = "drain"
    /\ pipeline # <<>>
    /\ \E e \in Choices(P, S, Head(pipeline)) :
          LET r == DrainMessage(S, e)
          IN /\ Commit(r)
             /\ IF r.err # "" THEN Fail(r)
                ELSE UNCHANGED <<pc, inLoop, err>>
    /\ UNCHANGED <<updatesQueue, queuedUpdates, replaying, usedUpdates>>

\* OnTick, the drain: with the pipeline empty, the front of callbacks runs.
DrainCallback(s) ==
    LET c == Head(s.callbacks)
    IN callback([s EXCEPT !.callbacks = Tail(@)], c.id, c.err, c.result)

TickCallbackAnytime ==
    /\ pc = "drain"
    /\ callbacks # <<>>
    /\ Commit(DrainCallback(S))
    /\ UNCHANGED <<updatesQueue, inLoop, queuedUpdates, replaying, usedUpdates, pc, err>>

TickCallback ==
    /\ pc = "drain"
    /\ pipeline = <<>>
    /\ callbacks # <<>>
    /\ Commit(DrainCallback(S))
    /\ UNCHANGED <<updatesQueue, inLoop, queuedUpdates, replaying, usedUpdates, pc, err>>

\* OnTick returns: both queues are empty.
TickEnd ==
    /\ pc = "drain"
    /\ pipeline = <<>>
    /\ callbacks = <<>>
    /\ pc' = "idle"
    /\ inLoop' = FALSE
    /\ UNCHANGED <<mq, mqSeq, pipeline, callbacks, canceller, updateValidateCb,
                   updateCompleteCb, updatesQueue, queuedUpdates, fut, replaying,
                   completeCalls, updLog, usedUpdates, wid, err, allocLog, resolved,
                   lastFlush, ids, late, handleLog, seqID>>
    /\ NoHandler

\* The coordinator after the replayed history.
Live == Init /\ ~replaying

\* A worker that starts activities and local activities, runs side effects
\* and cancels; round trips may fail.
Worker == [kinds |-> FutureCommands \cup {"SideEffect", "Cancel"},
           cmds |-> MaxCmds, errs |-> {"exec"}, opts |-> {}]

Next ==
    \/ HandleSignal
    \/ SdkResult
    \/ TickStart(Worker)
    \/ TickMessage(Worker)
    \/ TickCallback
    \/ TickEnd

Spec == Live /\ [][Next]_vars

\* =========================================================================
\* Result handlers: deferred and inline (Spec)
\* =========================================================================
\* The SDK fires the result handler of command id in this step.
Fires(id) == fut[id].st = "pending" /\ fut'[id].st = "fired"

ClosuresOf(q, id) == {i \in DOMAIN q : q[i].id = id}

\* The firing ran the completion: one entry for id was pushed, no closure kept.
Inline(id) ==
    /\ resolved'[id] = resolved[id] + 1
    /\ Cardinality(ClosuresOf(callbacks', id)) = Cardinality(ClosuresOf(callbacks, id))

\* The firing kept the completion for later: one closure more, nothing pushed.
Deferred(id) ==
    /\ resolved'[id] = resolved[id]
    /\ Cardinality(ClosuresOf(callbacks', id)) = Cardinality(ClosuresOf(callbacks, id)) + 1

\* C2 as stated (invariant I3): a handler that fires while inLoop is true is
\* appended to callbacks and pushes nothing; one that fires while inLoop is
\* false runs inline.
C2_AsStated ==
    [][\A id \in CmdIds : Fires(id) => IF inLoop THEN Deferred(id) ELSE Inline(id)]_vars

\* C2 amended: a handler that fires while inLoop is true runs inline (its
\* entry is pushed by the firing, nothing is appended to callbacks); one that
\* fires while inLoop is false is appended to callbacks and pushes nothing.
C2_InLoopInline ==
    [][\A id \in CmdIds : Fires(id) => IF inLoop THEN Inline(id) ELSE Deferred(id)]_vars

\* A cancel issued in the tick answered at once, its flush refused by the pool:
\* the cancelled command's error and the acknowledgement are staged.
C2_Witness ==
    /\ pc = "failed"
    /\ \E a \in CmdIds, c \in CmdIds :
          /\ fut[a].st = "fired"
          /\ Len(mq) >= 2
          /\ mq[Len(mq) - 1] = ErrorResponse(a)
          /\ mq[Len(mq)] = Response(c, completed)

\* The batch that holds what a step staged: what went to pool.Exec, or what
\* is still buffered when the round trip did not take place.
Staged == IF err' = "" THEN lastFlush' ELSE mq'

\* While a closure waits in callbacks, nothing is pushed for its id and its
\* cancel thunk stays registered.
C3_WhilePending ==
    \A i \in DOMAIN callbacks :
        /\ resolved[callbacks[i].id] = 0
        /\ fut[callbacks[i].id].command \in CancellableCommands
              => callbacks[i].id \in DOMAIN canceller
        /\ \A j \in DOMAIN mq : ~IsResolution(mq[j], callbacks[i].id)

C3_Firing ==
    \A id \in CmdIds : Fires(id) =>
        IF ~inLoop
        THEN /\ \E e \in BOOLEAN, r \in Payloads :
                   callbacks' = Append(callbacks, Closure(id, e, r))
             /\ mq' = mq
             /\ canceller' = canceller
        ELSE /\ id \notin DOMAIN canceller'
             /\ callbacks' = callbacks
             /\ \E j \in DOMAIN Staged : IsResolution(Staged[j], id)

\* C3: fired while inLoop is false, a handler appends exactly one closure and
\* leaves mq and the canceller alone, and they stay so for that id until a
\* tick drains the closure; fired while inLoop is true, it discards the
\* canceller entry and its entry is staged at once, callbacks unchanged.
C3_TwoPaths == []C3_WhilePending /\ [][C3_Firing]_vars

\* A completed activity whose closure waits while its thunk is still
\* registered.
C3_Witness ==
    /\ ~inLoop
    /\ \E i \in DOMAIN callbacks :
          /\ callbacks[i].id \in DOMAIN canceller
          /\ fut[callbacks[i].id].st = "fired"

\* C4: when a Cancel with id c names a pending command a and the SDK fires
\* a's handler from inside the thunk, the error entry of a is staged before
\* the "completed" acknowledgement of c, and one flush sends both.
C4_CancelOrder ==
    [][\A a \in CmdIds :
         (/\ pc = "drain" /\ pipeline # <<>>
          /\ Head(pipeline).command = "Cancel"
          /\ Fires(a)) =>
         /\ \E i, j \in DOMAIN Staged :
               /\ i < j
               /\ Staged[i] = ErrorResponse(a)
               /\ Staged[j] = Response(Head(pipeline).id, completed)
         /\ err' = "" => mq' = <<>>]_vars

C4_Witness ==
    /\ pc = "drain"
    /\ \E a \in CmdIds, c \in CmdIds, i \in DOMAIN lastFlush :
          /\ i < Len(lastFlush)
          /\ lastFlush[i] = ErrorResponse(a)
          /\ lastFlush[i + 1] = Response(c, completed)
          /\ mq = <<>>

\* Entries pushed and closures waiting for a command add up to one once its
\* future has completed, and to none before.
C5_Accounting ==
    \A n \in CmdIds : fut[n].st # "none" =>
        resolved[n] + Cardinality(ClosuresOf(callbacks, n)) =
            IF fut[n].st = "fired" THEN 1 ELSE 0

C5_TickReturns ==
    (pc = "drain" /\ pc' = "idle") =>
        \A n \in CmdIds : fut'[n].st = "fired" => resolved'[n] = 1

\* C5: every command that starts a future gets exactly one resolution entry:
\* none before the future completes, one closure or one entry once it has,
\* never two; and a tick that returns has pushed the entry of every completed
\* future.
C5_ExactlyOneResolution == []C5_Accounting /\ [][C5_TickReturns]_vars

\* A command cancelled in one tick, resolved once, the run going on.
C5_Witness ==
    /\ pc = "idle"
    /\ \E n \in CmdIds :
          /\ fut[n].st = "fired"
          /\ resolved[n] = 1
          /\ \E i \in DOMAIN lastFlush : lastFlush[i] = ErrorResponse(n)

\* =========================================================================
\* Message ids (SpecAlloc)
\* =========================================================================
\* A worker that only asks for versions; every SDK entry that allocates.
VersionWorker == [kinds |-> {"GetVersion"}, cmds |-> MaxCmds, errs |-> {"exec"}, opts |-> {}]

NextAlloc ==
    \/ HandleSignal
    \/ HandleCancel
    \/ HandleQuery(VersionWorker)
    \/ HandleUpdate
    \/ TickStart(VersionWorker)
    \/ TickMessage(VersionWorker)
    \/ TickEnd

SpecAlloc == Live /\ [][NextAlloc]_vars

\* C1: the ids allocated in one run are 1, 2, 3, ... in this order, whoever
\* allocates (PushCommand of handleSignal, handleCancel, handleUpdate's thunk,
\* or AllocateMessage of runCommand): each is one more than the one before
\* and none is assigned twice.
C1_ContiguousIds ==
    /\ \A i \in DOMAIN allocLog : allocLog[i] = i
    /\ \A i, j \in DOMAIN mq : (i < j /\ mq[i].command # "" /\ mq[j].command # "")
                                   => mq[i].id < mq[j].id

\* A query took id 1 and a pushed command then took id 2.
C1_Witness ==
    /\ allocLog = <<1, 2>>
    /\ lastFlush = <<>>
    /\ Len(mq) = 1
    /\ mq[1].id = 2

\* The SDK called handleSignal or handleCancel in this step: an id was
\* allocated outside a tick and nothing was returned to a query.
Staging ==
    /\ pc = "idle" /\ pc' = "idle"
    /\ mqSeq' # mqSeq
    /\ queryResult' = NoResult

C24_Step ==
    Staging =>
        /\ mqSeq' = mqSeq + 1
        /\ \E m \in {Message(mqSeq + 1, "InvokeSignal", "pl", FALSE, <<>>, ""),
                      Message(mqSeq + 1, "CancelWorkflow", NoPayloads, FALSE, <<>>, "")} :
              mq' = Append(mq, m)
        /\ err' = ""
        /\ flush' = NoExchange
        /\ lastFlush' = lastFlush
        /\ pipeline' = pipeline
        /\ callbacks' = callbacks

\* The commands of a batch sent to the worker are in the order of their
\* allocation, which is the order of the calls that staged them.
C24_Order ==
    \A i, j \in DOMAIN lastFlush :
        (i < j /\ lastFlush[i].command # "" /\ lastFlush[j].command # "")
            => lastFlush[i].id < lastFlush[j].id

\* C24: handleSignal and handleCancel each append exactly one command
\* (InvokeSignal with the signal's payloads, CancelWorkflow) to the end of mq,
\* return no error, make no round trip and leave pipeline and callbacks as
\* they were; the commands staged by successive calls are sent in the order
\* of the calls.
C24_StageOnly == []C24_Order /\ [][C24_Step]_vars

\* handleCancel and then handleSignal were called, and the tick sent
\* CancelWorkflow before InvokeSignal.
C24_Witness ==
    /\ Len(lastFlush) = 2
    /\ lastFlush[1] = Message(1, "CancelWorkflow", NoPayloads, FALSE, <<>>, "")
    /\ lastFlush[2] = Message(2, "InvokeSignal", "pl", FALSE, <<>>, "")

\* =========================================================================
\* Updates (SpecUpdate)
\* =========================================================================
UpdateWorker == [kinds |-> {"UpdateValidated", "UpdateCompleted"}, cmds |-> MaxCmds,
                 errs |-> {"exec"}, opts |-> {}]

NextUpdate ==
    \/ HandleSignal
    \/ HandleUpdate
    \/ ReplayEnds
    \/ TickStart(UpdateWorker)
    \/ TickMessage(UpdateWorker)
    \/ TickEnd

SpecUpdate == Init /\ [][NextUpdate]_vars

ValidateCalls(log) == {i \in DOMAIN log : log[i].call \in {"Accept", "Reject"}}
CompleteCalls(log) == {i \in DOMAIN log : log[i].call = "Complete"}

\* C6 as stated: whatever UpdateValidated and UpdateCompleted messages the
\* worker sends, the validation callback of an update is invoked exactly once
\* and before its completion callback.
C6_AsStated ==
    \A u \in UpdateIds :
        /\ Cardinality(ValidateCalls(updLog[u])) <= 1
        /\ \A i \in CompleteCalls(updLog[u]) :
              \E j \in ValidateCalls(updLog[u]) : j < i

\* The validation callback of u was handed a message carrying a failure.
ValidationFailed(u) ==
    \E i \in ValidateCalls(updLog[u]) : updLog[u][i].failure

C7_Removed == \A u \in UpdateIds : ValidationFailed(u) => u \notin updateCompleteCb

C7_NoLaterComplete ==
    \A u \in UpdateIds : ValidationFailed(u) =>
        Cardinality(CompleteCalls(updLog'[u])) = Cardinality(CompleteCalls(updLog[u]))

\* C7: once the validation callback of u has received a failure,
\* updateCompleteCb[u] is gone and no later UpdateCompleted calls Complete.
C7_NoCompleteAfterFailure == []C7_Removed /\ [][C7_NoLaterComplete]_vars

\* The validation failed and an UpdateCompleted for the same update is next.
C7_Witness ==
    \E u \in UpdateIds :
        /\ ValidationFailed(u)
        /\ pipeline # <<>>
        /\ Head(pipeline).command = "UpdateCompleted"
        /\ Head(pipeline).updateID = u

\* The message at the front of the pipeline is handed to a registered callback.
Validating(u) ==
    /\ pc = "drain" /\ pipeline # <<>>
    /\ Head(pipeline).command = "UpdateValidated"
    /\ Head(pipeline).updateID = u
    /\ u \in updateValidateCb

Completing(u) ==
    /\ pc = "drain" /\ pipeline # <<>>
    /\ Head(pipeline).command = "UpdateCompleted"
    /\ Head(pipeline).updateID = u
    /\ u \in updateCompleteCb

C8_Step ==
    \A u \in UpdateIds :
        /\ Validating(u) =>
              /\ Len(updLog'[u]) = Len(updLog[u]) + 1
              /\ SubSeq(updLog'[u], 1, Len(updLog[u])) = updLog[u]
              /\ updLog'[u][Len(updLog'[u])].call =
                    IF ~replaying /\ Head(pipeline).failure THEN "Reject" ELSE "Accept"
        /\ (/\ Completing(u)
            /\ ~Head(pipeline).failure
            /\ Len(updLog[u]) = 1 /\ updLog[u][1].call = "Accept") =>
              /\ Len(updLog'[u]) = 2
              /\ updLog'[u][1].call = "Accept"
              /\ updLog'[u][2] = UpdateCall("Complete", Head(pipeline).payloads, FALSE, FALSE)

\* C8: an invocation of the validation callback calls exactly one of Reject
\* and Accept: Reject when the workflow is not replaying and the message
\* carries a failure, Accept otherwise; and on the happy path the log of the
\* update reads Accept, Complete(payloads, nil).
C8_RejectOrAccept == [][C8_Step]_vars

\* During replay a failed validation was accepted, not rejected.
C8_Witness ==
    \E u \in UpdateIds :
        /\ replaying
        /\ Len(updLog[u]) = 1
        /\ updLog[u][1].call = "Accept"
        /\ updLog[u][1].failure

\* An UpdateValidated or UpdateCompleted message is at the front of the
\* pipeline; Callbacks(m) is the map its handler looks the update id up in.
UpdateMessage ==
    /\ pc = "drain" /\ pipeline # <<>>
    /\ Head(pipeline).command \in {"UpdateValidated", "UpdateCompleted"}

Callbacks(m) ==
    IF m.command = "UpdateValidated" THEN updateValidateCb ELSE updateCompleteCb

C30_Step ==
    UpdateMessage =>
        LET m == Head(pipeline)
        IN /\ m.updateID = "" =>
                 /\ pc' = "failed" /\ err' # ""
                 /\ updLog' = updLog
                 /\ updateValidateCb' = updateValidateCb
                 /\ updateCompleteCb' = updateCompleteCb
           /\ (m.updateID # "" /\ m.updateID \notin Callbacks(m)) =>
                 /\ pc' = "drain" /\ err' = ""
                 /\ updLog' = updLog
                 /\ updateValidateCb' = updateValidateCb
                 /\ updateCompleteCb' = updateCompleteCb
                 /\ mq' = mq
                 /\ pipeline' = Tail(pipeline)

\* C30: an UpdateValidated or UpdateCompleted message whose update id has no
\* registered callback returns no error, invokes no callback and leaves both
\* maps and mq as they were; one whose update id is empty returns an error
\* and invokes no callback.
C30_UnknownUpdate == [][C30_Step]_vars

\* No update was ever registered: the first message named an update id and
\* was dropped without an error, the second had an empty id and failed the
\* task.
C30_Witness ==
    /\ usedUpdates = {}
    /\ handleLog = <<1, 2>>
    /\ pc = "failed"
    /\ err \in {"update id is empty, can't complete update",
                "update id is empty, can't validate update"}
    /\ \A u \in UpdateIds : updLog[u] = <<>>

\* The InvokeUpdate command of update u.
IsInvokeUpdate(m, u) == m.command = "InvokeUpdate" /\ m.updateID = u

\* The thunk of update u is with the SDK, not yet run.
Queued(u) == \E i \in DOMAIN queuedUpdates : queuedUpdates[i].id = u

\* The thunk of update u has run: its InvokeUpdate was buffered, and it is
\* still buffered or went to the worker.
UpdateInvoked(u) ==
    \/ u \in usedUpdates /\ ~Queued(u)
    \/ \E i \in DOMAIN mq : IsInvokeUpdate(mq[i], u)
    \/ \E i \in DOMAIN lastFlush : IsInvokeUpdate(lastFlush[i], u)

C31_Registered ==
    \A u \in UpdateIds :
        (UpdateInvoked(u) /\ ValidateCalls(updLog[u]) = {}) => u \in updateValidateCb

C31_Step ==
    \A u \in UpdateIds :
        \* handleUpdate: the name is recorded, the thunk goes to the SDK
        /\ (u \notin usedUpdates /\ u \in usedUpdates') =>
              /\ "inc" \in updatesQueue'
              /\ Queued(u)'
              /\ mq' = mq
              /\ updateValidateCb' = updateValidateCb
              /\ updateCompleteCb' = updateCompleteCb
        \* the SDK runs the thunk at the start of the tick
        /\ (Queued(u) /\ ~Queued(u)') =>
              /\ u \in updateValidateCb' /\ u \in updateCompleteCb'
              /\ Cardinality({i \in DOMAIN Staged : IsInvokeUpdate(Staged[i], u)}) = 1
        \* nothing else registers a callback or buffers the command
        /\ ~(Queued(u) /\ ~Queued(u)') =>
              /\ u \in updateValidateCb' => u \in updateValidateCb
              /\ u \in updateCompleteCb' => u \in updateCompleteCb
              /\ \A i \in DOMAIN mq' :
                    IsInvokeUpdate(mq'[i], u) => \E j \in DOMAIN mq : mq[j] = mq'[i]

\* C31: handleUpdate records the name and leaves the callbacks and mq alone;
\* the queued thunk, when the SDK runs it, registers both callbacks and
\* buffers one InvokeUpdate; and while an InvokeUpdate of an update is
\* buffered or was sent and no validation of it was handled,
\* updateValidateCb holds the update.
C31_QueuedUpdate == []C31_Registered /\ [][C31_Step]_vars

\* The InvokeUpdate of an update went to the worker, the tick is over and
\* the validation callback still waits for UpdateValidated.
C31_Witness ==
    \E u \in UpdateIds :
        /\ pc = "idle"
        /\ \E i \in DOMAIN lastFlush : IsInvokeUpdate(lastFlush[i], u)
        /\ mq = <<>>
        /\ updLog[u] = <<>>
        /\ u \in updateValidateCb /\ u \in updateCompleteCb

\* The validation callback of u called callbacks.Accept.
Accepted(u) == \E i \in ValidateCalls(updLog[u]) : updLog[u][i].call = "Accept"

C32_StaysRegistered ==
    \A u \in UpdateIds :
        (Accepted(u) /\ CompleteCalls(updLog[u]) = {}) => u \in updateCompleteCb

C32_CompletesOnce ==
    \A u \in UpdateIds :
        (/\ Accepted(u) /\ CompleteCalls(updLog[u]) = {}
         /\ pc = "drain" /\ pipeline # <<>>
         /\ Head(pipeline).command = "UpdateCompleted"
         /\ Head(pipeline).updateID = u) =>
            /\ Cardinality(CompleteCalls(updLog'[u])) = 1
            /\ u \notin updateCompleteCb'

\* C32 as stated: an update whose validation callback called Accept, replaying
\* or not, keeps its updateCompleteCb until an UpdateCompleted for it is
\* handled, and that message calls callbacks.Complete exactly once.
C32_AsStated == []C32_StaysRegistered /\ [][C32_CompletesOnce]_vars

\* =========================================================================
\* Completion (SpecTerminal)
\* =========================================================================
TerminalWorker == [kinds |-> {"ExecuteActivity", "GetVersion", "CompleteWorkflow",
                              "ContinueAsNew"},
                   cmds |-> MaxCmds, errs |-> {"exec"}, opts |-> {}]

NextTerminal ==
    \/ HandleSignal
    \/ SdkResult
    \/ TickStart(TerminalWorker)
    \/ TickMessage(TerminalWorker)
    \/ TickCallback
    \/ TickEnd

SpecTerminal == Live /\ [][NextTerminal]_vars

\* C9 as stated: once the acknowledgement of CompleteWorkflow or
\* ContinueAsNew is enqueued, nothing more is added to mq and a further
\* message of the pipeline is dropped: no entry is pushed, no id allocated, no
\* SDK primitive started, no error returned.
C9_AsStated ==
    [][completeCalls # <<>> =>
          /\ resolved' = resolved
          /\ mqSeq' = mqSeq
          /\ fut' = fut
          /\ completeCalls' = completeCalls
          /\ err' = ""]_vars

C10_Step ==
    (/\ pc = "drain" /\ pipeline # <<>>
     /\ Head(pipeline).command = "CompleteWorkflow") =>
        /\ mq' = Append(mq, Response(Head(pipeline).id, completed))
        /\ completeCalls' =
              Append(completeCalls,
                     IF Head(pipeline).failure
                     THEN CompleteCall(NoPayloads, "failure")
                     ELSE CompleteCall(Head(pipeline).payloads, "nil"))

C10_NeverBoth ==
    \A i \in DOMAIN completeCalls :
        completeCalls[i].payloads = NoPayloads \/ completeCalls[i].err = "nil"

\* C10: handling CompleteWorkflow with id n pushes exactly one response
\* (n, "completed") and then calls env.Complete once: (msg.payloads, nil)
\* without a failure, (nil, the converted failure) with one; never payloads
\* and an error together.
C10_CompleteWorkflow == []C10_NeverBoth /\ [][C10_Step]_vars

\* A CompleteWorkflow that carried payloads and a failure was acknowledged
\* and completed the workflow with the error alone.
C10_Witness ==
    /\ completeCalls = <<CompleteCall(NoPayloads, "failure")>>
    /\ mq # <<>>
    /\ mq[Len(mq)].payloads = completed

\* =========================================================================
\* Round trips (SpecFlush)
\* =========================================================================
\* A worker that asks for versions and starts activities, behind a pool whose
\* round trip may fail at every step.
FlushWorker == [kinds |-> {"GetVersion", "ExecuteActivity"}, cmds |-> MaxCmds,
                errs |-> {"encode", "exec", "result", "stream", "empty", "decode"}, opts |-> {}]

NextFlush ==
    \/ HandleSignal
    \/ HandleQuery(FlushWorker)
    \/ SdkResult
    \/ PoolDelivers
    \/ TickStart(FlushWorker)
    \/ TickMessage(FlushWorker)
    \/ TickCallback
    \/ TickEnd

SpecFlush == Live /\ [][NextFlush]_vars

\* C11: when the reply carries the STREAM flag, flushQueue and runCommand
\* return the error "streaming is not supported", exactly one value was sent
\* on the stop channel given to pool.Exec, and pipeline and mq are as the
\* operation found them (mq not cleared).
C11_StreamRejected ==
    flush.kind = "stream" =>
        /\ flush.stop = 1
        /\ pipeline = flush.pipeline
        /\ mq = flush.mq
        /\ IF flush.op = "flushQueue"
           THEN err = "streaming is not supported" /\ pc = "failed" /\ mq # <<>>
           ELSE queryResult = QueryResult(NoPayloads, "streaming is not supported")

\* A flush made while a GetVersion was handled got a streamed reply.
C11_Witness ==
    /\ flush.kind = "stream"
    /\ flush.op = "flushQueue"
    /\ handleLog # <<>>
    /\ \E i \in DOMAIN mq : mq[i].command = ""

\* C12: flushQueue clears mq only after a round trip that succeeded in every
\* step, and then appends the reply to pipeline; on every error path mq and
\* pipeline are as flushQueue found them, the messages still buffered.
C12_FlushOnlyOnSuccess ==
    flush.op = "flushQueue" =>
        IF flush.kind = "ok"
        THEN /\ err = ""
             /\ mq = <<>>
             /\ pipeline = flush.pipeline \o flush.msgs
        ELSE /\ err # ""
             /\ pc = "failed"
             /\ mq = flush.mq
             /\ mq # <<>>
             /\ pipeline = flush.pipeline

\* The reply could not be decoded: two messages are still buffered.
C12_Witness ==
    /\ flush.op = "flushQueue"
    /\ flush.kind = "decode"
    /\ Len(mq) = 2

C13_Empty ==
    flush.kind = "empty" =>
        /\ late = Abandoned(flush.msgs)
        /\ pipeline = flush.pipeline
        /\ mq = flush.mq
        /\ IF flush.op = "flushQueue"
           THEN err = "worker empty response" /\ pc = "failed"
           ELSE queryResult = QueryResult(NoPayloads, "worker empty response")

C13_Late ==
    late.st # "none" =>
        \A i \in DOMAIN pipeline : \A j \in DOMAIN late.msgs : pipeline[i] # late.msgs[j]

C13_Delivery ==
    (late.st = "awaiting" /\ late'.st = "delivered") =>
        UNCHANGED <<pipeline, mq, callbacks, pc, err>>

\* C13: the reply is received without blocking: with no reply on the channel
\* when pool.Exec returns, flushQueue and runCommand fail with "worker empty
\* response" instead of waiting, and the reply that arrives later is never
\* appended to pipeline.
C13_NonBlocking == [](C13_Empty /\ C13_Late) /\ [][C13_Delivery]_vars

\* A query got no reply in time, the run went on with a tick, and the pool
\* delivered the reply of the query afterwards.
C13_Witness ==
    /\ late.st = "delivered"
    /\ late.msgs # <<>>
    /\ pipeline # <<>>
    /\ pc = "drain"

C18_OneReply ==
    flush.op = "runCommand" =>
        /\ Len(flush.sent) = 1
        /\ flush.sent[1].command = "InvokeQuery"
        /\ flush.kind = "ok" =>
              IF Len(flush.msgs) # 1
              THEN queryResult = QueryResult(NoPayloads, "unexpected pool response")
              ELSE IF flush.msgs[1].failure
              THEN queryResult.payloads = NoPayloads /\ queryResult.err \notin {"nil", "none"}
              ELSE queryResult = QueryResult(flush.msgs[1].payloads, "nil")

\* The worker answered a query with two messages.
C18_Witness ==
    /\ flush.op = "runCommand"
    /\ Len(flush.msgs) = 2
    /\ queryResult.err = "unexpected pool response"

DrainWorker == [kinds |-> {"GetVersion", "ExecuteActivity"}, cmds |-> MaxSeqCmds,
                errs |-> {"exec"}, opts |-> {}]

NextDrain ==
    \/ HandleSignal
    \/ SdkResult
    \/ TickStart(DrainWorker)
    \/ TickMessage(DrainWorker)
    \/ TickCallback
    \/ TickEnd

SpecDrain == Live /\ [][NextDrain]_vars

Count(q, n) == Cardinality({i \in DOMAIN q : q[i] = n})
IdsOf(q) == [i \in DOMAIN q |-> q[i].id]

\* A message the worker sent (its id is at most wid) is in the pipeline or
\* was given to handleMessage, once in all.
C14_Accounting ==
    \A n \in CmdIds :
        Count(handleLog, n) + Count(IdsOf(pipeline), n) = IF n <= wid THEN 1 ELSE 0

C14_DrainEnds ==
    (pc = "drain" /\ pc' = "idle") =>
        /\ pipeline' = <<>>
        /\ callbacks' = <<>>
        /\ \A n \in 1..wid' : Count(handleLog', n) = 1

\* C14: every message appended to the pipeline is given to handleMessage
\* exactly once, never skipped and never twice, and when the drain of a tick
\* ends without error pipeline and callbacks are empty.
C14_ExactlyOneDispatch == []C14_Accounting /\ [][C14_DrainEnds]_vars

\* A tick returned after three messages, one of them received by a flush made
\* in the middle of dispatch.
C14_Witness ==
    /\ pc = "idle"
    /\ handleLog = <<1, 2, 3>>
    /\ Len(allocLog) = 1

\* C15: a successful flushQueue appends the reply to the end of pipeline in
\* reply order; messages are handled in pipeline order (the worker numbers
\* them in the order it sends them); and a message waits in the pipeline only
\* inside a drain with inLoop true, so that what a flush made in the middle
\* of dispatch adds is handled in the same drain, after what was there.
C15_InboundOrder ==
    /\ (flush.op = "flushQueue" /\ flush.kind = "ok") =>
           pipeline = flush.pipeline \o flush.msgs
    /\ \A i \in DOMAIN handleLog : handleLog[i] = i
    /\ \A i \in DOMAIN pipeline : pipeline[i].id = Len(handleLog) + i
    /\ (pipeline # <<>> /\ pc # "failed") => (pc = "drain" /\ inLoop)

\* The flush of a GetVersion added a message behind one that was waiting.
C15_Witness ==
    /\ pc = "drain"
    /\ flush.op = "flushQueue"
    /\ flush.kind = "ok"
    /\ handleLog # <<>>
    /\ flush.pipeline # <<>>
    /\ flush.msgs # <<>>
    /\ Len(pipeline) = 2

\* What the closure c pushes when it runs.
EntryOf(c) == IF c.err THEN ErrorResponse(c.id) ELSE Response(c.id, c.result)

\* C16: in a drain, with pipeline and callbacks both non-empty the next item
\* processed is the front of pipeline; deferred callbacks run from the front
\* of callbacks, in the order they were appended.
C16_PipelineFirst ==
    [][/\ (pc = "drain" /\ pipeline # <<>> /\ callbacks # <<>>) =>
             /\ handleLog' = Append(handleLog, Head(pipeline).id)
             /\ callbacks' = callbacks
       /\ (pc = "drain" /\ callbacks' # callbacks) =>
             /\ callbacks' = Tail(callbacks)
             /\ mq' = Append(mq, EntryOf(Head(callbacks)))]_vars

\* Two activities completed between ticks; the next tick received a message
\* and handled it before either closure.
C16_Witness ==
    /\ pc = "drain"
    /\ Len(callbacks) = 2
    /\ pipeline = <<>>
    /\ handleLog = <<1, 2, 3>>

\* =========================================================================
\* Cancellation (SpecCancel)
\* =========================================================================
\* A worker that starts activities and cancels them, three commands long; a
\* cancel thunk may return an error.
CancelWorker == [kinds |-> {"ExecuteActivity", "Cancel"}, cmds |-> MaxSeqCmds,
                 errs |-> {"exec"}, opts |-> {"thunkErrors"}]

NextCancel ==
    \/ HandleSignal
    \/ SdkResult
    \/ TickStart(CancelWorker)
    \/ TickMessage(CancelWorker)
    \/ TickCallback
    \/ TickEnd

SpecCancel == Live /\ [][NextCancel]_vars

\* A Cancel command is handled in this step.
Cancelling ==
    /\ pc = "drain"
    /\ pipeline # <<>>
    /\ Head(pipeline).command = "Cancel"

Registered(id) == id \in DOMAIN canceller

\* The thunks invoked, in order.
Invoked(log) == IdsOf(SelectSeq(log, LAMBDA v : v.invoked))

\* C19: Cancel(S) invokes the thunks registered for the ids of S, those and
\* no other, in the order of S; a thunk whose id was discarded is not
\* invoked: once the result handler of command n has run, a later Cancel
\* naming n makes no cancel request for n.  (The thunks of handleMessage all
\* return nil.)
C19_CancelRegistered ==
    [][/\ Cancelling =>
             /\ IdsOf(thunkLog') = Head(pipeline).commandIDs
             /\ Invoked(thunkLog') = SelectSeq(Head(pipeline).commandIDs, Registered)
       /\ ~Cancelling => thunkLog' = <<>>
       /\ \A n \in CmdIds :
             (resolved[n] > 0 \/ ~Registered(n)) => Count(Invoked(thunkLog'), n) = 0]_vars

\* A Cancel named two activities, the later one first; the earlier one had
\* completed and its handler had run, so only the thunk of the later one
\* was invoked, and the SDK answered it at once.
C19_Witness ==
    /\ thunkLog = <<Visit(2, TRUE), Visit(1, FALSE)>>
    /\ resolved[1] = 1
    /\ resolved[2] = 1
    /\ lastFlush = <<ErrorResponse(2), Response(3, completed)>>

\* The entries of mq that acknowledge command c.
Acks(q, c) == {i \in DOMAIN q : q[i] = Response(c, completed)}

C28_Step ==
    Cancelling =>
        LET c == Head(pipeline).id
        IN IF CancelError(thunkLog')
           THEN /\ pc' = "failed" /\ err' # ""
                /\ resolved'[c] = resolved[c]
                /\ Acks(mq', c) = {}
                /\ flush' = NoExchange
                /\ lastFlush' = lastFlush
           ELSE /\ resolved'[c] = resolved[c] + 1
                /\ flush'.op = "flushQueue"
                /\ Acks(flush'.mq, c) = {Len(flush'.mq)}

\* C28: a Cancel command with id c is acknowledged only when the
\* cancellation succeeded: when canceller.Cancel returns an error,
\* handleMessage returns it, pushes no "completed" response for c and does
\* not flush; otherwise exactly one "completed" response for c is pushed, last
\* in mq, and a flush follows, also when none of the ids named is registered.
C28_AckAfterCancel == [][C28_Step]_vars

\* A Cancel named two activities; the thunk of the first returned an error,
\* the second was still cancelled and answered at once, and the Cancel was
\* neither acknowledged nor flushed.
C28_Witness ==
    /\ pc = "failed"
    /\ thunkLog = <<Failed(1), Visit(2, TRUE)>>
    /\ mq = <<ErrorResponse(2)>>
    /\ resolved[3] = 0
    /\ flush = NoExchange

\* =========================================================================
\* Child workflow executions (SpecChild)
\* =========================================================================
\* A worker that starts child workflows and asks for the execution of the
\* child it has just started.
ChildWorker == [kinds |-> {"ExecuteChildWorkflow", "GetChildWorkflowExecution"},
                cmds |-> MaxCmds, errs |-> {"exec"}, opts |-> {}]

NextChild ==
    \/ HandleSignal
    \/ SdkResult
    \/ SdkChildStarted
    \/ TickStart(ChildWorker)
    \/ TickMessage(ChildWorker)
    \/ TickCallback
    \/ TickEnd

SpecChild == Live /\ [][NextChild]_vars

\* C20: for each child workflow command the listener of
\* GetChildWorkflowExecution fires exactly once, in both orders: it has fired
\* as soon as the start result is pushed and Listen is called, whichever comes
\* second; never twice; never before a start result exists; and its firing
\* gives the message that listened exactly one closure or one entry.
C20_ListenOnce ==
    \A c \in CmdIds :
        /\ ids[c].fired <= 1
        /\ ids[c].fired = 1 <=> (ids[c].res # "none" /\ ids[c].listened # 0)
        /\ ids[c].cb # 0 => (ids[c].res = "none" /\ ids[c].cb = ids[c].listened)
        /\ ids[c].listened # 0 =>
              resolved[ids[c].listened]
                  + Cardinality(ClosuresOf(callbacks, ids[c].listened)) = ids[c].fired

\* Listen came first: the listener fired when the start callback pushed,
\* between ticks, and its completion waits in callbacks.
C20_Witness ==
    \E c \in CmdIds :
        /\ ids[c].res = "ok"
        /\ ids[c].fired = 1
        /\ ids[c].listened = c + 1
        /\ ClosuresOf(callbacks, c + 1) # {}
        /\ resolved[c + 1] = 0

\* The message that asks for the execution of child c: the worker sends it
\* right after the command that starts the child.
Requester(c) == c + 1

\* The listener of child c fires in this step.
ListenerFires(c) == ids'[c].fired # ids[c].fired

C29_Step ==
    \A c \in CmdIds : ListenerFires(c) =>
        LET g == Requester(c)
            failed == ids'[c].res = "err"
            result == IF failed THEN NoPayloads ELSE "pl"
        IN /\ ids'[c].fired = ids[c].fired + 1
           /\ resolved'[c] = resolved[c]
           /\ IF inLoop
              THEN /\ mq' = Append(mq, IF failed THEN ErrorResponse(g) ELSE Response(g, result))
                   /\ callbacks' = callbacks
              ELSE /\ callbacks' = Append(callbacks, Closure(g, failed, result))
                   /\ mq' = mq

C29_One ==
    \A c \in CmdIds : ids[c].listened # 0 =>
        /\ ids[c].listened = Requester(c)
        /\ resolved[Requester(c)] + Cardinality(ClosuresOf(callbacks, Requester(c))) <= 1

\* C29: a GetChildWorkflowExecution message with id g naming child c gets
\* exactly one resolution entry, carrying g and not c: a response made from
\* the execution when the start succeeded, an error entry when the start
\* callback reported an error; fired outside the drain it is kept in
\* callbacks, fired inside it is pushed at once.
C29_EntryForRequester == []C29_One /\ [][C29_Step]_vars

\* The start of child c had failed before the worker asked: the listener
\* fired inside the drain and pushed the error entry of the asking message.
C29_Witness ==
    \E c \in CmdIds :
        /\ ids[c].res = "err"
        /\ ids[c].fired = 1
        /\ pc = "drain"
        /\ resolved[c] = 0
        /\ mq # <<>>
        /\ mq[Len(mq)] = ErrorResponse(Requester(c))

\* =========================================================================
\* Versions and side effects (SpecSideEffect)
\* =========================================================================
\* A worker that asks for versions and runs side effects, on an SDK that may
\* call the handler of a side effect from inside env.SideEffect or later,
\* between ticks.
SideEffectWorker == [kinds |-> {"GetVersion", "SideEffect"}, cmds |-> MaxCmds,
                     errs |-> {"exec"}, opts |-> {"lateSideEffect"}]

NextSideEffect ==
    \/ HandleSignal
    \/ SdkSideEffect(SideEffectWorker)
    \/ TickStart(SideEffectWorker)
    \/ TickMessage(SideEffectWorker)
    \/ TickEnd

SpecSideEffect == Live /\ [][NextSideEffect]_vars

C26_Step ==
    (/\ pc = "drain" /\ pipeline # <<>>
     /\ Head(pipeline).command = "GetVersion") =>
        LET n == Head(pipeline).id
        IN /\ flush'.op = "flushQueue"
           /\ flush'.mq = Append(mq, Response(n, "pl"))
           /\ resolved' = [resolved EXCEPT ![n] = @ + 1]
           /\ callbacks' = callbacks
           /\ IF flush'.kind = "ok"
              THEN /\ lastFlush' = flush'.mq
                   /\ mq' = <<>>
                   /\ pc' = "drain" /\ err' = ""
              ELSE /\ mq' = flush'.mq
                   /\ pc' = "failed" /\ err' # ""

\* C26: handling GetVersion with id n pushes the response for n to mq at
\* once, not through callbacks, and flushes in the same handleMessage call:
\* the batch of that flush is everything buffered before followed by the
\* response; when the flush fails handleMessage returns the error.
C26_GetVersionFlushes == [][C26_Step]_vars

\* A side effect had failed and left its error entry in mq; the GetVersion
\* behind it sent both.
C26_Witness ==
    /\ flush.op = "flushQueue"
    /\ flush.kind = "ok"
    /\ flush.mq = <<ErrorResponse(1), Response(2, "pl")>>
    /\ lastFlush = flush.mq
    /\ handleLog = <<1, 2>>

C27_Step ==
    completion' # NoCompletion =>
        LET id == completion'.id
        IN /\ callbacks' = callbacks
           /\ resolved' = [resolved EXCEPT ![id] = @ + 1]
           /\ IF completion'.err
              THEN /\ mq' = Append(mq, ErrorResponse(id))
                   /\ flush' = NoExchange
                   /\ lastFlush' = lastFlush
              ELSE /\ flush'.op = "flushQueue"
                   /\ flush'.mq = Append(mq, Response(id, "pl"))
                   /\ flush'.kind = "ok" => (mq' = <<>> /\ lastFlush' = flush'.mq)

\* C27: the result handler of SideEffect never appends to callbacks; with
\* inLoop set or not, a successful completion pushes the response for the
\* command's id and flushes before it returns, and an error completion
\* pushes the error entry and does not flush.
C27_Continuable == [][C27_Step]_vars

\* The SDK completed a side effect between ticks: with inLoop clear the
\* handler pushed the response and the flush sent it.
C27_Witness ==
    /\ completion = Completion(1, FALSE)
    /\ ~inLoop
    /\ pc = "idle"
    /\ flush.op = "flushQueue"
    /\ flush.kind = "ok"
    /\ lastFlush = <<Response(1, "pl")>>

\* =========================================================================
\* Child workflow ids (SpecChildId)
\* =========================================================================
\* A worker that starts child workflows, three commands long, with a workflow
\* id of its own or without one.
ChildIdWorker == [kinds |-> {"ExecuteChildWorkflow"}, cmds |-> MaxSeqCmds,
                  errs |-> {"exec"}, opts |-> {"workflowID"}]

NextChildId ==
    \/ HandleSignal
    \/ TickStart(ChildIdWorker)
    \/ TickMessage(ChildIdWorker)
    \/ TickEnd

SpecChildId == Live /\ [][NextChildId]_vars

\* The child workflow of command i was started under an id the coordinator
\* made.
Generated(i) ==
    /\ fut[i].command = "ExecuteChildWorkflow"
    /\ fut[i].workflowID \notin WorkflowIDs

C21_Step ==
    IF pc = "drain" /\ pipeline # <<>> /\ Head(pipeline).command = "ExecuteChildWorkflow"
    THEN LET m == Head(pipeline)
         IN IF m.workflowID = <<>>
            THEN /\ seqID' = seqID + 1
                 /\ fut'[m.id].workflowID = <<RunID, "_", seqID + 1>>
            ELSE /\ seqID' = seqID
                 /\ fut'[m.id].workflowID = m.workflowID
    ELSE seqID' = seqID

C21_Distinct ==
    /\ \A i, j \in CmdIds :
          (i # j /\ Generated(i) /\ Generated(j)) => fut[i].workflowID # fut[j].workflowID
    /\ {fut[i].workflowID : i \in {j \in CmdIds : Generated(j)}}
          = {<<RunID, "_", k>> : k \in 1..seqID}

\* C21: an ExecuteChildWorkflow command without a workflowID is started
\* under runID + "_" + k, k the next value of seqID (1 for the first); seqID
\* grows by exactly 1 for each id made and stays when the worker supplies a
\* workflowID, which is passed on as it is; the ids made in a run are
\* pairwise distinct.
C21_ChildIds == []C21_Distinct /\ [][C21_Step]_vars

\* Three child workflows, the second with an id of the worker's: the first
\* and the third got R_1 and R_2.
C21_Witness ==
    /\ seqID = 2
    /\ fut[1].workflowID = GeneratedID(1)
    /\ fut[2].workflowID = <<"w1">>
    /\ fut[3].workflowID = GeneratedID(2)

\* =========================================================================
\* Typed search attributes (SpecUpsert)
\* =========================================================================
UpsertWorker == [kinds |-> {"UpsertWorkflowTypedSearchAttributes"}, cmds |-> MaxUpserts,
                 errs |-> {"exec"}, opts |-> {}]

NextUpsert ==
    \/ HandleSignal
    \/ TickStart(UpsertWorker)
    \/ TickMessage(UpsertWorker)
    \/ TickEnd

SpecUpsert == Live /\ [][NextUpsert]_vars

\* A Set entry of type Datetime whose string is not an RFC3339 time.
BadDatetime(x) ==
    /\ x.type = "Datetime" /\ x.op = "set"
    /\ x.value \notin {"nil", "2024-01-01T00:00:00Z"}

\* C23: UpsertWorkflowTypedSearchAttributes does not call
\* env.UpsertTypedSearchAttributes when no update comes out of the
\* translation (an empty input, or entries without a value), and returns no
\* error; it never passes an empty list; and when a Set entry of type
\* Datetime has a string that is not valid RFC3339 it returns an error
\* without calling env.UpsertTypedSearchAttributes, so none of the other
\* attributes of the batch is applied.
C23_TypedUpsert ==
    upsert.request # <<>> =>
        LET a == upsert.request[1]
        IN /\ (\E i \in DOMAIN a : BadDatetime(a[i])) =>
                 /\ upsert.calls = <<>>
                 /\ pc = "failed"
                 /\ err = "failed to parse time into RFC3339"
           /\ (\A i \in DOMAIN a : a[i].op = "set" /\ a[i].value = "nil") =>
                 /\ upsert.calls = <<>>
                 /\ pc = "drain" /\ err = ""
           /\ Len(upsert.calls) <= 1
           /\ \A i \in DOMAIN upsert.calls : upsert.calls[i] # <<>>

\* A bool and a time that does not parse: the command failed and the bool
\* was not applied.
C23_Witness ==
    /\ upsert.request = <<<<Attr("Bool", "set", "true"), Attr("Datetime", "set", "tomorrow")>>>>
    /\ upsert.calls = <<>>
    /\ pc = "failed"

\* =========================================================================
\* Replay (SpecReplay)
\* =========================================================================
\* Two executions of one run: the SDK makes the same handleSignal,
\* handleCancel, handleUpdate and OnTick calls on both, in the same order, and
\* the worker gives both the same replies; handleQuery is called on the first
\* only.  The second execution is the record twin.
Twin == [twin EXCEPT !.inLoop = inLoop, !.err = "", !.flush = NoExchange,
                     !.thunkLog = <<>>, !.queryResult = NoResult,
                     !.upsert = NoUpsert, !.completion = NoCompletion]

\* A worker that answers every frame with an empty one.
ReplayWorker == [kinds |-> {}, cmds |-> 0, errs |-> {}, opts |-> {}]

ReplaySignal ==
    /\ Running /\ CanAllocate
    /\ \E input \in SignalInputs :
          /\ CommitFields(handleSignal(S, input))
          /\ twin' = handleSignal(Twin, input)
    /\ UNCHANGED <<updatesQueue, inLoop, queuedUpdates, replaying, usedUpdates, pc, err>>

ReplayCancel ==
    /\ Running /\ CanAllocate
    /\ CommitFields(handleCancel(S))
    /\ twin' = handleCancel(Twin)
    /\ UNCHANGED <<updatesQueue, inLoop, queuedUpdates, replaying, usedUpdates, pc, err>>

ReplayTickStart(P) ==
    /\ Running
    /\ LET s1 == HandleQueuedUpdates([S EXCEPT !.inLoop = TRUE], queuedUpdates)
       IN \E out \in IF s1.mq = <<>> THEN {NoOut} ELSE FlushOutcomes(P, wid) :
             LET r == OnTick(S, queuedUpdates, out)
             IN /\ CommitFields(r)
                /\ twin' = OnTick(Twin, queuedUpdates, out)
                /\ IF r.err # "" THEN Fail(r)
                   ELSE pc' = "drain" /\ inLoop' = TRUE /\ err' = err
    /\ updatesQueue' = {}
    /\ queuedUpdates' = <<>>
    /\ UNCHANGED <<replaying, usedUpdates>>

NextReplay ==
    \/ ReplaySignal
    \/ ReplayCancel
    \/ HandleUpdate
    \/ HandleQuery(ReplayWorker)
    \/ ReplayTickStart(ReplayWorker)
    \/ TickEnd

\* Both executions as constructed, after the replayed history.
LiveReplay == InitFields /\ ~replaying /\ twin = S /\ plugin = NoPlugin

SpecReplay == LiveReplay /\ [][NextReplay]_vars

\* C25 as stated: given the same sequence of OnTick, handleSignal,
\* handleUpdate and handleCancel calls and the same replies, the messages
\* sent (commands and message ids) are the same whether or not handleQuery
\* calls were interleaved: the batches the two executions sent last are equal.
C25_AsStated == lastFlush = twin.lastFlush

\* =========================================================================
\* Panic and undefined commands (SpecPanic)
\* =========================================================================
\* A worker that starts activities, panics and sends a command handleMessage
\* has no case for; signals and updates arrive and activities end meanwhile.
PanicWorker == [kinds |-> {"ExecuteActivity", "Panic", "Undefined"}, cmds |-> MaxCmds,
                errs |-> {"exec"}, opts |-> {}]

NextPanic ==
    \/ HandleSignal
    \/ HandleUpdate
    \/ SdkResult
    \/ TickCallback
    \/ TickStart(PanicWorker)
    \/ TickMessage(PanicWorker)
    \/ TickEnd

SpecPanic == Live /\ [][NextPanic]_vars

\* handleMessage is about to handle a message of the given commands.
Handling(commands) ==
    /\ pc = "drain" /\ pipeline # <<>>
    /\ Head(pipeline).command \in commands

\* The handler returned without pushing, exchanging or calling the SDK, and
\* left the canceller and the update maps as they were.
NothingDone ==
    /\ mq' = mq /\ mqSeq' = mqSeq
    /\ flush' = NoExchange /\ lastFlush' = lastFlush
    /\ completeCalls' = completeCalls
    /\ fut' = fut /\ upsert' = NoUpsert /\ updLog' = updLog
    /\ callbacks' = callbacks
    /\ canceller' = canceller /\ thunkLog' = <<>>
    /\ updateValidateCb' = updateValidateCb
    /\ updateCompleteCb' = updateCompleteCb
    /\ updatesQueue' = updatesQueue

C33_Step ==
    /\ Handling({"Panic"}) =>
          /\ pc' = "failed"
          /\ err' = FailureToError(Head(pipeline).failure) /\ err' # ""
          /\ NothingDone
    /\ Handling({"Undefined"}) =>
          /\ pc' = "failed"
          /\ err' = E("handleMessage", "undefined command")
          /\ NothingDone

\* C33: a Panic command and a command without a case each make handleMessage
\* return an error, push nothing to mq, call no SDK primitive and leave the
\* canceller and the update maps unchanged; the error of Panic is the
\* converted failure itself, without the name of the operation around it.
C33_FatalCommands == [][C33_Step]_vars

\* A panic failed the task while a cancel thunk and the callbacks of an
\* update were registered.
C33_Witness ==
    /\ pc = "failed"
    /\ err = "failure"
    /\ DOMAIN canceller # {}
    /\ updateValidateCb # {} /\ updateCompleteCb # {}
    /\ completeCalls = <<>>

\* =========================================================================
\* The workflow plugin: Stop, Reset and the watcher (SpecPlugin)
\* =========================================================================
\* The plugin after Serve: the first pool runs and watch has started its two
\* goroutines, the reset loop and the event listener.
\*   closing, pool, reset, stopCh: the fields of Plugin; pool is 0 for nil or
\*     the place of the pool in pools; reset and stopCh hold the number of
\*     values in the channel (capacity 1 each)
\*   pools: every pool started so far, "live" or "destroyed"
\*   eventsCh: the number of events in the listener's channel
\*   loop: where the reset loop is: recv, check, replace, backoff, exit
\*   listener: where the event listener is: subscribe, select, forward, exit
\*   stop: where the call of Stop is: idle, getPool, destroy, signal, returned
\*   senders: calls of Reset blocked in the send on reset
Served ==
    [closing |-> 0, pool |-> 1, pools |-> <<"live">>, reset |-> 0, stopCh |-> 0,
     eventsCh |-> 0, published |-> 0, subscribed |-> FALSE,
     loop |-> "recv", retries |-> 0, replaced |-> 0,
     listener |-> "subscribe",
     stop |-> "idle", stopPool |-> 0,
     calls |-> 0, senders |-> 0, errCh |-> 0]

Serve == InitFields /\ ~replaying /\ twin = NoTwin /\ plugin = Served

\* The coordinator of a workflow run is not part of the plugin's steps.
coordinator == <<mq, mqSeq, pipeline, callbacks, canceller, updateValidateCb,
                 updateCompleteCb, updatesQueue, inLoop, queuedUpdates, fut, replaying,
                 completeCalls, updLog, usedUpdates, wid, pc, err, allocLog, resolved,
                 lastFlush, ids, late, handleLog, flush, thunkLog, queryResult, seqID,
                 upsert, completion, twin>>

\* pool.Destroy: the pool is gone, whatever error Destroy returns.
Destroy(p, i) == [p EXCEPT !.pools[i] = "destroyed"]

\* startPool: newPool and Start, either of which may fail.
startPool(p, startErr) ==
    IF startErr THEN [p |-> p, np |-> 0, err |-> TRUE]
    ELSE [p |-> [p EXCEPT !.pools = Append(@, "live")], np |-> Len(p.pools) + 1,
          err |-> FALSE]

\* replacePool, under the lock of the plugin from the first line to the last:
\* the old pool is destroyed and forgotten, a new one started and stored.
replacePool(p, destroyErr, startErr) ==
    LET p1 == IF p.pool # 0 THEN [Destroy(p, p.pool) EXCEPT !.pool = 0] ELSE p
    IN IF p.pool # 0 /\ destroyErr THEN [p |-> p1, err |-> TRUE]
       ELSE LET r == startPool(p1, startErr)
            IN IF r.err THEN [p |-> r.p, err |-> TRUE]
               ELSE [p |-> [r.p EXCEPT !.pool = r.np, !.replaced = @ + 1],
                     err |-> FALSE]

\* What Destroy and startPool may return; no pool is started beyond MaxPools.
PoolOutcomes(p) ==
    {o \in [destroyErr : BOOLEAN, startErr : BOOLEAN] :
        /\ (p.pool = 0 => ~o.destroyErr)
        /\ (Len(p.pools) >= MaxPools => o.startErr)}

\* Plugin.Reset is called: the send on reset is about to take place.
ResetCall ==
    /\ plugin.calls < MaxResets
    /\ plugin' = [plugin EXCEPT !.calls = @ + 1, !.senders = @ + 1]
    /\ UNCHANGED coordinator

\* Plugin.Reset: the send completes when the channel has room.
ResetSend ==
    /\ plugin.senders > 0
    /\ plugin.reset = 0
    /\ plugin' = [plugin EXCEPT !.reset = 1, !.senders = @ - 1]
    /\ UNCHANGED coordinator

\* The event bus publishes EventWorkerWaitExit or EventWorkerError.
WorkerEvent ==
    /\ plugin.subscribed
    /\ plugin.published < MaxEvents
    /\ plugin' = [plugin EXCEPT !.published = @ + 1, !.eventsCh = @ + 1]
    /\ UNCHANGED coordinator

\* watch, the listener: the two subscriptions; an error ends the goroutine,
\* after the first subscription or before it.
ListenerSubscribe ==
    /\ plugin.listener = "subscribe"
    /\ \/ plugin' = [plugin EXCEPT !.subscribed = TRUE, !.listener = "select"]
       \/ \E first \in BOOLEAN :
             plugin' = [plugin EXCEPT !.subscribed = ~first, !.errCh = @ + 1,
                                      !.listener = "exit"]
    /\ UNCHANGED coordinator

\* watch, the listener: case <-eventsCh.
ListenerEvent ==
    /\ plugin.listener = "select"
    /\ plugin.eventsCh > 0
    /\ plugin' = [plugin EXCEPT !.eventsCh = @ - 1, !.listener = "forward"]
    /\ UNCHANGED coordinator

\* watch, the listener: p.reset <- struct{}{}.
ListenerForward ==
    /\ plugin.listener = "forward"
    /\ plugin.reset = 0
    /\ plugin' = [plugin EXCEPT !.reset = 1, !.listener = "select"]
    /\ UNCHANGED coordinator

\* watch, the listener: case <-p.stopCh.
ListenerStop ==
    /\ plugin.listener = "select"
    /\ plugin.stopCh > 0
    /\ plugin' = [plugin EXCEPT !.stopCh = @ - 1, !.subscribed = FALSE,
                                !.listener = "exit"]
    /\ UNCHANGED coordinator

\* watch, the reset loop: for range p.reset.
LoopRecv ==
    /\ plugin.loop = "recv"
    /\ plugin.reset > 0
    /\ plugin' = [plugin EXCEPT !.reset = @ - 1, !.loop = "check"]
    /\ UNCHANGED coordinator

\* watch, the reset loop: the load of closing.
LoopCheck ==
    /\ plugin.loop = "check"
    /\ plugin' = [plugin EXCEPT !.loop = IF plugin.closing = 1 THEN "exit" ELSE "replace"]
    /\ UNCHANGED coordinator

\* watch, the reset loop: the first replacePool.
LoopReplace ==
    /\ plugin.loop = "replace"
    /\ \E o \in PoolOutcomes(plugin) :
          LET r == replacePool(plugin, o.destroyErr, o.startErr)
          IN plugin' = [r.p EXCEPT !.loop = IF r.err THEN "backoff" ELSE "recv",
                                   !.retries = 0]
    /\ UNCHANGED coordinator

\* watch, the reset loop: backoff.Retry(p.replacePool, bkoff); when the
\* retries are used up the error goes to errCh and the goroutine returns.
LoopRetry ==
    /\ plugin.loop = "backoff"
    /\ \E o \in PoolOutcomes(plugin) :
          LET r == replacePool(plugin, o.destroyErr, o.startErr)
          IN plugin' =
                IF ~r.err THEN [r.p EXCEPT !.loop = "recv"]
                ELSE IF plugin.retries < MaxRetries
                THEN [r.p EXCEPT !.retries = @ + 1]
                ELSE [r.p EXCEPT !.errCh = @ + 1, !.loop = "exit"]
    /\ UNCHANGED coordinator

\* Stop: atomic.StoreInt64(&p.closing, 1).
StopBegin ==
    /\ plugin.stop = "idle"
    /\ plugin' = [plugin EXCEPT !.closing = 1, !.stop = "getPool"]
    /\ UNCHANGED coordinator

\* Stop: workflowPool := p.getPool(), under the lock.
StopGetPool ==
    /\ plugin.stop = "getPool"
    /\ plugin' = [plugin EXCEPT !.stopPool = plugin.pool,
                                !.stop = IF plugin.pool # 0 THEN "destroy" ELSE "signal"]
    /\ UNCHANGED coordinator

\* Stop: workflowPool.Destroy, outside the lock; Stop returns its error or nil.
StopDestroy ==
    /\ plugin.stop = "destroy"
    /\ plugin' = [Destroy(plugin, plugin.stopPool) EXCEPT !.stop = "returned"]
    /\ UNCHANGED coordinator

\* Stop: p.stopCh <- struct{}{}, when there was no pool.
StopSignal ==
    /\ plugin.stop = "signal"
    /\ plugin.stopCh = 0
    /\ plugin' = [plugin EXCEPT !.stopCh = 1, !.stop = "returned"]
    /\ UNCHANGED coordinator

NextPlugin ==
    \/ ResetCall
    \/ ResetSend
    \/ WorkerEvent
    \/ ListenerSubscribe
    \/ ListenerEvent
    \/ ListenerForward
    \/ ListenerStop
    \/ LoopRecv
    \/ LoopCheck
    \/ LoopReplace
    \/ LoopRetry
    \/ StopBegin
    \/ StopGetPool
    \/ StopDestroy
    \/ StopSignal

SpecPlugin == Serve /\ [][NextPlugin]_vars

\* p.pool refers to a pool that runs.
PoolLive == plugin.pool # 0 /\ plugin.pools[plugin.pool] = "live"

C34_NoLivePool == plugin.stop = "returned" => ~PoolLive

C34_NoNewPool == plugin.stop = "returned" => Len(plugin'.pools) = Len(plugin.pools)

\* C34 as stated: once Stop has set closing and has returned, no pool is
\* started and p.pool never refers to a live pool, however Stop interleaves
\* with Reset, with worker events and with a replacePool or a retry of it
\* that the watcher has started.
C34_AsStated == []C34_NoLivePool /\ [][C34_NoNewPool]_vars

\* =========================================================================
\* The workflow plugin: progress (SpecPluginLive)
\* =========================================================================
\* The Go scheduler runs every goroutine that can take a step: the reset
\* loop, the listener, a Reset blocked in its send and a Stop that has begun.
\* Calls of Reset and Stop and the events of the bus are up to the
\* environment.
Scheduling ==
    /\ WF_vars(ResetSend)
    /\ WF_vars(ListenerSubscribe)
    /\ WF_vars(ListenerEvent)
    /\ WF_vars(ListenerForward)
    /\ WF_vars(ListenerStop)
    /\ WF_vars(LoopRecv)
    /\ WF_vars(LoopCheck)
    /\ WF_vars(LoopReplace)
    /\ WF_vars(LoopRetry)
    /\ WF_vars(StopGetPool)
    /\ WF_vars(StopDestroy)
    /\ WF_vars(StopSignal)

SpecPluginLive == Serve /\ [][NextPlugin]_vars /\ Scheduling

\* Every send on reset completes: the calls of Reset and the listener's
\* forward of a worker event.
C35_SendsComplete ==
    /\ (plugin.senders > 0) ~> (plugin.senders = 0)
    /\ (plugin.listener = "forward") ~> (plugin.listener # "forward")

\* A reset the loop accepted while the plugin is not closing leads to a
\* replaced pool, unless the plugin closes or the loop gives up with an error.
C35_Replaces ==
    \A n \in 0..MaxPools :
        (plugin.loop = "replace" /\ plugin.replaced = n) ~>
            (plugin.replaced > n \/ plugin.closing = 1 \/ plugin.loop = "exit")

\* After Stop both goroutines of watch are gone and the listener has
\* unsubscribed.
C35_Exits ==
    (plugin.stop = "returned") ~>
        (plugin.loop = "exit" /\ plugin.listener = "exit" /\ ~plugin.subscribed)

\* C35 as stated: every call of Reset and every forwarded worker event
\* completes its send on the reset channel, an accepted reset leads to a pool
\* replacement while the plugin is not closing, and after Stop the reset loop
\* and the event listener exit, the listener unsubscribed, whether or not a
\* pool existed when Stop was called.
C35_AsStated == C35_SendsComplete /\ C35_Replaces /\ C35_Exits
====
